---- MODULE Spec2Model ----
(***************************************************************************)
(* Offline synchronisation engine of the housekeeping client:              *)
(*   IndexedDBManager      (src/src/lib/offline/indexeddb.ts)              *)
(*   OfflineManager        (src/src/lib/offline/offline-manager.ts)        *)
(*   BackgroundSyncService (src/src/components/room-details-sheet.tsx,     *)
(*                          lines 461-756)                                 *)
(*   the remote authority  (src/src/lib/services/room-assignment.service.ts)*)
(*   SyncService           (src/src/components/providers.tsx, 44-418)      *)
(*   useRoomAssignments    (src/unnamed/part_000, debounced refresh)       *)
(*                                                                         *)
(* Every storage call and every network call is one atomic step; the       *)
(* asynchronous tasks interleave between those steps, as they do on the    *)
(* single cooperative thread of the browser.                               *)
(***************************************************************************)
EXTENDS Integers, Sequences, FiniteSets, TLC

(***************************************************************************)
(* Bounds of the model                                                     *)
(***************************************************************************)
\* number of local edits (updateRoom calls) explored; also the number of
\* queue-item ids (uuids) that can be issued
MaxEdits == 2
\* latest reading of the wall clock
MaxTime == 3
\* number of local-storage requests that may be rejected
MaxFaults == 1
\* number of sync passes started where passes are counted
MaxPasses == 2
\* number of syncFromServer calls on a drawn store
MaxPulls == 2
\* longest batch handed to bulkUpdateRooms
MaxBatch == 2
\* the consumer's clock advances by at most this many ms in one step
Tick == 250
\* the latest reading of the consumer's clock (ms)
MaxNow == 4000
\* number of events delivered to the consumer's handlers
MaxEvents == 5

(***************************************************************************)
(* Program constants                                                       *)
(***************************************************************************)
\* retryDelays.length: [1000, 5000, 15000, 30000, 60000]
RetryDelaysLength == 5
\* INVALIDATION_COOLDOWN (ms)
InvalidationCooldown == 1000
\* the delay of the setTimeout in debouncedInvalidation (ms)
DebounceDelay == 500

(***************************************************************************)
(* Data                                                                    *)
(***************************************************************************)
\* ids of the room assignments the remote authority holds
RoomIds == {1, 2}
\* uuids the client can draw for queue items
ItemIds == 1..MaxEdits
\* absent values (null / undefined)
NoRoom == [id |-> 0]
NoTime == 0

\* the field-level deltas the user interface submits (UpdateRoomAssignmentData)
Deltas ==
    { ("status" :> "clean"),
      ("status" :> "inspected"),
      ("notes" :> "done") }

\* the semantic fields of a room assignment carried by the model
SemanticFields == {"status", "notes"}
\* bookkeeping keys that syncRoomUpdate strips from a payload
InternalKeys == {"version", "id", "isDirty", "lastSyncedAt", "createdAt", "updatedAt"}

\* the remote authority's seed: every room dirty, no note, stamped at time 1
SeedRemote == [r \in RoomIds |-> [id |-> r, status |-> "dirty", notes |-> "none", updatedAt |-> 1]]

VARIABLES
    rooms,          \* object store roomAssignments: id -> RoomAssignmentLocal or NoRoom
    queue,          \* object store syncQueue: item id -> SyncQueueItem
    remote,         \* the remote authority's table: id -> RoomAssignment
    clock,          \* wall clock (ms), shared by client and server
    issued,         \* uuids drawn so far
    isOnline,       \* BackgroundSyncService.isOnline
    syncInProgress, \* BackgroundSyncService.syncInProgress
    syncStatus,     \* OfflineManager.syncStatus
    retryTimers,    \* whether setTimeout retry callbacks of syncItem are pending
    upd,            \* the frame of the updateRoom or bulkUpdateRooms call in progress; at: the time the
                    \* call read; emits: the call has set the timer that publishes
                    \* room-updated
    pass,           \* the frame of the syncPendingItems call in progress; reentered is
                    \* history: a call made during this pass returned early
    edits,          \* number of updateRoom calls made
    faults,         \* number of storage requests rejected so far
    faultable,      \* the tasks whose storage requests may be rejected: "edit", "pass"
    passes,         \* number of sync passes started, where they are counted
    inFlight,       \* history: syncPendingItems calls past the guard, not yet at finally
    pulls,          \* history: number of syncFromServer calls made
    before,         \* history: the local store as the latest syncFromServer call found it
    raced,          \* history: items whose edit overlapped a push for the same room
                    \* and is still the latest edit of that room
    ui,             \* the consumer hook useRoomAssignments: its clock, its timers and
                    \* the closure variables of debouncedInvalidation
    listing,        \* a getAllRooms call: the records the store yields and the result
    mgr,            \* OfflineManager.init: the initialized flag, the calls awaiting
                    \* the store and the handlers registered on BackgroundSyncService
    calls,          \* the frames of two concurrent updateRoom calls
    bus,            \* an event bus: the listeners of one event and the emit in progress
    attempted       \* history: item id -> number of syncItem calls made for the item
                    \* while it is in the queue

vars == <<rooms, queue, remote, clock, issued, isOnline, syncInProgress, syncStatus,
          retryTimers, upd, pass, edits, faults, faultable, passes, inFlight, pulls,
          before, raced, ui, attempted, listing, mgr, calls, bus>>

(***************************************************************************)
(* Helpers                                                                 *)
(***************************************************************************)
\* { ...base, ...over }: object spread, keys of over win
Spread(base, over) ==
    [k \in DOMAIN base \cup DOMAIN over |-> IF k \in DOMAIN over THEN over[k] ELSE base[k]]

\* object rest pattern: the object without the listed keys
Omit(obj, keys) == [k \in DOMAIN obj \ keys |-> obj[k]]

\* new Date(x || 0).getTime()
GetTime(x) == IF x = NoTime THEN 0 ELSE x

\* new Date(): the clock may have advanced since it was last read
Now == {clock} \cup (IF clock < MaxTime THEN {clock + 1} ELSE {})

\* the ascending sequence of a finite set of integers
RECURSIVE SortedSeq(_)
SortedSeq(S) ==
    IF S = {} THEN <<>>
    ELSE LET m == CHOOSE x \in S : \A y \in S : x <= y
         IN <<m>> \o SortedSeq(S \ {m})

\* store.put(value) on a store keyed by id
PutItem(q, item) ==
    [i \in DOMAIN q \cup {item.id} |-> IF i = item.id THEN item ELSE q[i]]

\* store.delete(id)
DeleteItem(q, id) == [i \in DOMAIN q \ {id} |-> q[i]]

\* a storage request of the task may be rejected (request.onerror)
CanFault(task) == task \in faultable /\ faults < MaxFaults

(***************************************************************************)
(* IndexedDBManager                                                        *)
(***************************************************************************)
\* getAllRoomAssignments: store.getAll(), in key order
getAllRoomAssignments(store) ==
    LET present == {r \in DOMAIN store : store[r] # NoRoom}
        order == SortedSeq(present)
    IN [i \in 1..Len(order) |-> store[order[i]]]

\* the read of the queue returning the failed items along with the pending
getPendingAndFailedItems(q) ==
    LET ids == {i \in DOMAIN q : q[i].syncStatus \in {"pending", "failed"}}
        order == SortedSeq(ids)
    IN [i \in 1..Len(order) |-> q[order[i]]]

\* getPendingSyncItems: index('syncStatus').getAll('pending'); the records of
\* one index key come in primary-key (id) order
getPendingSyncItems(q) ==
    LET ids == {i \in DOMAIN q : q[i].syncStatus = "pending"}
        order == SortedSeq(ids)
    IN [i \in 1..Len(order) |-> q[order[i]]]

(***************************************************************************)
(* OfflineManager                                                          *)
(***************************************************************************)
\* the local record stamped with the time of the pull instead of the server's
\* updatedAt
convertToLocalStamped(room, now) ==
    [id |-> room.id, status |-> room.status, notes |-> room.notes,
     updatedAt |-> now, lastSyncedAt |-> now, isDirty |-> FALSE,
     version |-> 0]

\* convertToLocal: the local record made from a server record
convertToLocal(room, now) ==
    [id |-> room.id, status |-> room.status, notes |-> room.notes,
     updatedAt |-> room.updatedAt, lastSyncedAt |-> now, isDirty |-> FALSE,
     version |-> 0]

\* convertFromLocal: the record handed to the user interface
convertFromLocal(room) ==
    [id |-> room.id, status |-> room.status, notes |-> room.notes,
     updatedAt |-> room.updatedAt]

\* the deduplication loop keeping the first record of every id
RECURSIVE dedupeFirstWins(_, _)
dedupeFirstWins(list, roomMap) ==
    IF list = <<>> THEN roomMap
    ELSE LET room == Head(list)
         IN dedupeFirstWins(Tail(list), IF room.id \notin DOMAIN roomMap
                                        THEN Spread(roomMap, (room.id :> room))
                                        ELSE roomMap)

\* getAllRooms: the deduplication loop over the converted records
RECURSIVE dedupe(_, _)
dedupe(list, roomMap) ==
    IF list = <<>> THEN roomMap
    ELSE LET room == Head(list)
             keep == \/ room.id \notin DOMAIN roomMap
                     \/ GetTime(room.updatedAt) > GetTime(roomMap[room.id].updatedAt)
         IN dedupe(Tail(list), IF keep THEN Spread(roomMap, (room.id :> room)) ELSE roomMap)

\* getAllRooms, as a map id -> RoomAssignment
getAllRooms(list) ==
    dedupe([i \in 1..Len(list) |-> convertFromLocal(list[i])], <<>>)

\* the record to save when the isDirty test is left out: every local record
\* is replaced
mergeServerRoomAlways(localRoom, serverRoom, now) ==
    IF localRoom = NoRoom THEN convertToLocal(serverRoom, now)
    ELSE [convertToLocal(serverRoom, now) EXCEPT !.lastSyncedAt = now]

\* the record to save when a server room with no local record is skipped
mergeServerRoomExistingOnly(localRoom, serverRoom, now) ==
    IF localRoom # NoRoom /\ ~localRoom.isDirty
    THEN [convertToLocal(serverRoom, now) EXCEPT !.lastSyncedAt = now]
    ELSE NoRoom

\* the record to save when a clean local record is replaced only by a server
\* record that is not older
mergeServerRoomNewerOnly(localRoom, serverRoom, now) ==
    IF localRoom = NoRoom THEN convertToLocal(serverRoom, now)
    ELSE IF ~localRoom.isDirty /\ GetTime(serverRoom.updatedAt) >= GetTime(localRoom.updatedAt)
         THEN [convertToLocal(serverRoom, now) EXCEPT !.lastSyncedAt = now]
         ELSE NoRoom

\* syncFromServer: the record to save for one server room, or NoRoom
mergeServerRoom(localRoom, serverRoom, now) ==
    IF localRoom = NoRoom THEN convertToLocal(serverRoom, now)
    ELSE IF ~localRoom.isDirty THEN [convertToLocal(serverRoom, now) EXCEPT !.lastSyncedAt = now]
    ELSE NoRoom

\* the store made a mirror of the snapshot: the records the snapshot does not
\* hold are deleted
syncFromServerMirror(store, serverRooms, now) ==
    [r \in DOMAIN store |->
        IF r \notin DOMAIN serverRooms THEN NoRoom
        ELSE IF mergeServerRoom(store[r], serverRooms[r], now) # NoRoom
        THEN mergeServerRoom(store[r], serverRooms[r], now)
        ELSE store[r]]

\* syncFromServer: the store after saveMultipleRoomAssignments(roomsToSave)
syncFromServer(store, serverRooms, now) ==
    [r \in DOMAIN store |->
        IF r \in DOMAIN serverRooms /\ mergeServerRoom(store[r], serverRooms[r], now) # NoRoom
        THEN mergeServerRoom(store[r], serverRooms[r], now)
        ELSE store[r]]

\* the updated record without the version increment
updatedRoomSameVersion(currentRoom, updateData, now) ==
    [Spread(currentRoom, updateData) EXCEPT !.updatedAt = now, !.isDirty = TRUE]

\* the updated record with the spread reversed: { ...updateData, ...currentRoom }
updatedRoomCurrentWins(currentRoom, updateData, now) ==
    [Spread(updateData, currentRoom) EXCEPT
        !.updatedAt = now, !.isDirty = TRUE, !.version = currentRoom.version + 1]

\* updateRoom: the updated record
updatedRoom(currentRoom, updateData, now) ==
    [Spread(currentRoom, updateData) EXCEPT
        !.updatedAt = now, !.isDirty = TRUE, !.version = currentRoom.version + 1]

\* updateRoom: the queue item
syncItemFor(uuid, roomId, updateData, version, now) ==
    [id |-> uuid, roomId |-> roomId, changeType |-> "update",
     data |-> Spread(updateData, ("version" :> version)),
     syncStatus |-> "pending", retryCount |-> 0, createdAt |-> now]

IdleUpd == [pc |-> "idle"]

\* the consumer hook after its effect has run: Date.now() is at least one
\* cooldown past 0, no timer is set (invalidationTimeout = null) and
\* lastInvalidationTime = 0. History: events (calls of debouncedInvalidation),
\* lastEvent (time of the latest call), skipped (calls that returned in the
\* cooldown), refreshes (invalidateQueries calls), and for the burst in
\* progress (calls less than DebounceDelay apart): burstOutside (it started
\* outside the cooldown), burstEvents, burstRefreshes
IdleUi ==
    [now |-> InvalidationCooldown, timers |-> {}, invalidationTimeout |-> 0,
     lastInvalidationTime |-> 0, events |-> 0, lastEvent |-> 0, skipped |-> 0,
     refreshes |-> 0, burstOutside |-> FALSE, burstEvents |-> 0, burstRefreshes |-> 0]
IdlePass == [pc |-> "idle"]
\* no getAllRooms call made
IdleListing == [localRooms |-> <<>>, pc |-> "idle"]
\* OfflineManager as constructed
IdleMgr ==
    [initialized |-> FALSE, inits |-> 0, awaiting |-> 0, handlers |-> 0,
     synced |-> 0, dataUpdated |-> 0, roomUpdated |-> 0]
\* no concurrent updateRoom call made
IdleCalls == <<>>
\* an event bus without listeners
IdleBus ==
    [listeners |-> <<>>, kinds |-> <<>>, pc |-> "idle", k |-> 0, len |-> 0,
     invoked |-> <<>>, atStart |-> {}]

Init ==
    /\ rooms = [r \in RoomIds |-> NoRoom]
    /\ queue = <<>>
    /\ remote = SeedRemote
    /\ clock = 1
    /\ issued = {}
    /\ isOnline \in BOOLEAN
    /\ syncInProgress = FALSE
    /\ syncStatus = "idle"
    /\ retryTimers = FALSE
    /\ upd = IdleUpd
    /\ pass = IdlePass
    /\ edits = 0
    /\ faults = 0
    /\ faultable = {"edit"}
    /\ passes = 0
    /\ inFlight = 0
    /\ pulls = 0
    /\ before = [r \in RoomIds |-> NoRoom]
    /\ raced = {}
    /\ ui = IdleUi
    /\ attempted = <<>>
    /\ listing = IdleListing
    /\ mgr = IdleMgr
    /\ calls = IdleCalls
    /\ bus = IdleBus

(***************************************************************************)
(* History bookkeeping                                                     *)
(***************************************************************************)
\* the positions of syncPendingItems that lie inside syncItem
ItemPcs == {"markSyncing", "push", "readLocal", "saveMerged", "remove", "readRoom",
            "saveClean", "recordFailure"}

\* the item the pass is working on
CurrentItem(p) == p.items[p.idx]

\* an updateRoom call in progress while syncItem runs for the same room
Overlaps(u, p) ==
    /\ u.pc \in {"save", "enqueue"}
    /\ p.pc \in ItemPcs
    /\ CurrentItem(p).roomId = u.roomId

\* the updateRoom frame after a step of the pass
UpdAfter(p) == IF Overlaps(upd, p) THEN [upd EXCEPT !.raced = TRUE] ELSE upd

(***************************************************************************)
(* fetchRoomAssignmentsUnified: first load of an empty local store         *)
(***************************************************************************)
\* OfflineManager.syncFromServer(serverRooms), from setSyncStatus('syncing')
\* to setSyncStatus('idle')
SyncFromServer(serverRooms, now) ==
    /\ rooms' = syncFromServer(rooms, serverRooms, now)
    /\ syncStatus' = "idle"
    /\ pulls' = pulls + 1
    /\ before' = rooms

LoadFromServer ==
    /\ Len(getAllRoomAssignments(rooms)) = 0
    /\ isOnline
    /\ SyncFromServer(remote, clock)
    /\ UNCHANGED <<ui, attempted, listing, mgr, calls, bus, passes, faultable, queue, remote, clock, issued, isOnline, syncInProgress, retryTimers,
                   upd, pass, edits, faults, inFlight, raced>>

(***************************************************************************)
(* OfflineManager.updateRoom                                               *)
(***************************************************************************)
\* getRoomAssignment resolves with null and a record is made of the delta alone
\* and saved, before the error is thrown
UpdateRoomReadUpsert(roomId, updateData, limit) ==
    /\ upd.pc = "idle"
    /\ edits < limit
    /\ rooms[roomId] = NoRoom
    /\ upd' = [pc |-> "notFound", roomId |-> roomId, emits |-> FALSE]
    /\ rooms' = [rooms EXCEPT ![roomId] =
                   updatedRoom(convertToLocal([SeedRemote[roomId] EXCEPT !.updatedAt = clock],
                                              clock),
                               updateData, clock)]
    /\ UNCHANGED <<ui, attempted, listing, mgr, calls, bus, queue, remote, clock, issued, isOnline, syncInProgress, syncStatus,
                   retryTimers, pass, edits, faults, faultable, passes, inFlight, pulls,
                   before, raced>>

\* updateRoom made to wait for the orchestrator: it reads only while the
\* client is online and no pass is in flight
UpdateRoomReadWhenSettled(roomId, updateData, limit) ==
    /\ isOnline /\ ~syncInProgress
    /\ upd.pc = "idle"
    /\ edits < limit
    /\ rooms[roomId] # NoRoom
    /\ \E now \in Now :
         /\ upd' = [pc |-> "save", roomId |-> roomId, data |-> updateData,
                    current |-> rooms[roomId],
                    updated |-> updatedRoom(rooms[roomId], updateData, now),
                    quiet |-> FALSE, raced |-> FALSE, emits |-> FALSE, at |-> now]
         /\ clock' = now
         /\ edits' = edits + 1
    /\ UNCHANGED <<ui, attempted, listing, mgr, calls, bus, passes, faultable, pulls, before, rooms, queue, remote, issued, isOnline,
                   syncInProgress, syncStatus, retryTimers, pass, faults, inFlight, raced>>

\* getRoomAssignment resolves: not found throws, otherwise the updated record
\* is built and saveRoomAssignment is requested
UpdateRoomRead(roomId, updateData, limit) ==
    /\ upd.pc = "idle"
    /\ edits < limit
    /\ IF rooms[roomId] = NoRoom
       THEN /\ upd' = [pc |-> "notFound", roomId |-> roomId, emits |-> FALSE]
            /\ UNCHANGED <<edits, clock>>
       ELSE \E now \in Now :
              LET u == [pc |-> "save", roomId |-> roomId, data |-> updateData,
                        current |-> rooms[roomId],
                        updated |-> updatedRoom(rooms[roomId], updateData, now),
                        quiet |-> ~isOnline /\ ~syncInProgress,
                        raced |-> FALSE, emits |-> FALSE, at |-> now]
              IN /\ upd' = [u EXCEPT !.raced = Overlaps(u, pass)]
                 /\ clock' = now
                 /\ edits' = edits + 1
    /\ UNCHANGED <<ui, attempted, listing, mgr, calls, bus, passes, faultable, pulls, before, rooms, queue, remote, issued, isOnline, syncInProgress, syncStatus,
                   retryTimers, pass, faults, inFlight, raced>>

\* saveRoomAssignment resolves and addToSyncQueue is requested, or it rejects
\* and updateRoom throws
UpdateRoomSave ==
    /\ upd.pc = "save"
    /\ \/ /\ rooms' = [rooms EXCEPT ![upd.roomId] = upd.updated]
          /\ upd' = [upd EXCEPT !.pc = "enqueue", !.raced = @ \/ Overlaps(upd, pass)]
          /\ raced' = {q \in raced : q \in DOMAIN queue /\ queue[q].roomId # upd.roomId}
          /\ UNCHANGED faults
       \/ /\ CanFault("edit")
          /\ faults' = faults + 1
          /\ upd' = IdleUpd
          /\ UNCHANGED <<rooms, raced>>
    /\ UNCHANGED <<ui, attempted, listing, mgr, calls, bus, passes, faultable, pulls, before, queue, remote, clock, issued, isOnline, syncInProgress,
                   syncStatus, retryTimers, pass, edits, inFlight>>

\* addToSyncQueue resolves and updateRoom returns the updated room, or it
\* rejects and updateRoom throws
UpdateRoomEnqueue ==
    /\ upd.pc = "enqueue"
    /\ \/ \E uuid \in ItemIds \ issued :
            /\ queue' = PutItem(queue, syncItemFor(uuid, upd.roomId, upd.data,
                                                   upd.updated.version, upd.updated.updatedAt))
            /\ issued' = issued \cup {uuid}
            /\ raced' = IF upd.raced \/ Overlaps(upd, pass) THEN raced \cup {uuid} ELSE raced
            /\ upd' = [upd EXCEPT !.pc = "done", !.emits = TRUE]
            /\ UNCHANGED faults
       \/ /\ CanFault("edit")
          /\ faults' = faults + 1
          /\ upd' = IdleUpd
          /\ UNCHANGED <<queue, issued, raced>>
    /\ UNCHANGED <<ui, attempted, listing, mgr, calls, bus, passes, faultable, pulls, before, rooms, remote, clock, isOnline, syncInProgress, syncStatus,
                   retryTimers, pass, edits, inFlight>>

\* the caller takes the returned room, or the not-found error
UpdateRoomReturn ==
    /\ upd.pc \in {"done", "notFound"}
    /\ upd' = IdleUpd
    /\ UNCHANGED <<ui, attempted, listing, mgr, calls, bus, passes, faultable, pulls, before, rooms, queue, remote, clock, issued, isOnline, syncInProgress,
                   syncStatus, retryTimers, pass, edits, faults, inFlight, raced>>

(***************************************************************************)
(* The remote authority                                                    *)
(***************************************************************************)
\* syncRoomUpdate sending the item's data as stored
apiDataUnstripped(data) == data
\* syncRoomUpdate: the request body, the payload without the internal keys
apiData(data) == Omit(data, InternalKeys)

\* RoomAssignmentService.updateAssignment: { ...data, updatedAt: new Date() }
updateAssignment(record, data, now) ==
    [Spread(record, data) EXCEPT !.updatedAt = now]

(***************************************************************************)
(* BackgroundSyncService                                                   *)
(***************************************************************************)
\* the early return without the test of syncInProgress
SkipSyncWhenOffline(online) == ~online

\* the early return with the test of isOnline inverted
SkipSyncWhenOnline(online) == syncInProgress \/ online

\* syncPendingItems: the early return
SkipSync(online) == syncInProgress \/ ~online

\* syncRoomUpdate: the server's echo is written over the local record
EchoWins(updatedRoomEcho, localRoom) ==
    GetTime(updatedRoomEcho.updatedAt) >= GetTime(localRoom.updatedAt)

\* syncRoomUpdate: { ...localRoom, ...updatedRoom, isDirty: false, lastSyncedAt }
mergedRoom(localRoom, updatedRoomEcho, now) ==
    [Spread(localRoom, updatedRoomEcho) EXCEPT !.isDirty = FALSE, !.lastSyncedAt = now]

\* the catch block without the increment of retryCount
failedItemSameCount(item) ==
    [item EXCEPT !.syncStatus = IF item.retryCount + 1 < RetryDelaysLength
                                THEN "pending" ELSE "failed"]

\* syncItem, catch block: retryCount++ and the status the item is given
failedItem(item) ==
    [item EXCEPT !.retryCount = item.retryCount + 1,
                 !.syncStatus = IF item.retryCount + 1 < RetryDelaysLength
                                THEN "pending" ELSE "failed"]

\* syncItem, catch block: a retry timer is set when retries remain
SetsRetryTimer(item) == item.retryCount + 1 < RetryDelaysLength

\* the number of syncItem calls made so far for a queued item
Attempts(id) == IF id \in DOMAIN attempted THEN attempted[id] ELSE 0

\* the frame of a pass that starts syncItem on its k-th item
StartItem(p, k) ==
    [p EXCEPT !.pc = "markSyncing", !.idx = k,
              !.items[k].syncStatus = "syncing",
              !.echo = NoRoom, !.rec = NoRoom]

\* syncItem returned or threw for the current item: the loop goes on to the
\* next item, or sync-completed is emitted and the finally block runs
FinishItem ==
    IF pass.idx < Len(pass.items)
    THEN /\ pass' = StartItem(pass, pass.idx + 1)
         /\ UNCHANGED <<syncInProgress, syncStatus, inFlight>>
    ELSE /\ pass' = IdlePass
         /\ syncInProgress' = FALSE
         /\ syncStatus' = "idle"
         /\ inFlight' = inFlight - 1

\* syncItem enters its catch block: the item in memory is marked and
\* updateSyncQueueItem is requested
EnterCatch ==
    /\ pass' = [pass EXCEPT !.pc = "recordFailure",
                            !.items[pass.idx] = failedItem(CurrentItem(pass)),
                            !.echo = NoRoom, !.rec = NoRoom]
    /\ retryTimers' = (retryTimers \/ SetsRetryTimer(CurrentItem(pass)))

\* syncPendingItems, called with isOnline as the caller left it; sync-started
\* reaches OfflineManager, which sets its status
SyncPendingItems(online, counted) ==
    IF SkipSync(online)
    THEN /\ pass' = IF syncInProgress THEN [pass EXCEPT !.reentered = TRUE] ELSE pass
         /\ UNCHANGED <<syncInProgress, inFlight, passes>>
    ELSE /\ counted => passes < MaxPasses
         /\ passes' = IF counted THEN passes + 1 ELSE passes
         /\ syncInProgress' = TRUE
         /\ pass' = [pc |-> "getPending", items |-> <<>>, idx |-> 0,
                     echo |-> NoRoom, rec |-> NoRoom, reentered |-> FALSE]
         /\ inFlight' = inFlight + 1

\* window 'online': isOnline is set, sync-started is emitted, syncPendingItems runs
OnlineEvent(counted) ==
    /\ ~isOnline
    /\ isOnline' = TRUE
    /\ syncStatus' = "syncing"
    /\ SyncPendingItems(TRUE, counted)
    /\ upd' = IF upd.pc \in {"idle", "notFound"} THEN upd ELSE [upd EXCEPT !.quiet = FALSE]
    /\ UNCHANGED <<ui, attempted, listing, mgr, calls, bus, rooms, queue, remote, clock, issued, retryTimers, edits, faults,
                   faultable, pulls, before, raced>>

\* window 'offline'
OfflineEvent ==
    /\ isOnline
    /\ isOnline' = FALSE
    /\ UNCHANGED <<ui, attempted, listing, mgr, calls, bus, passes, faultable, pulls, before, rooms, queue, remote, clock, issued, syncInProgress, syncStatus,
                   retryTimers, upd, pass, edits, faults, inFlight, raced>>

\* the setInterval callback of startPeriodicSync
PeriodicSync(counted) ==
    /\ IF isOnline /\ ~syncInProgress
       THEN /\ SyncPendingItems(isOnline, counted)
            /\ syncStatus' = IF SkipSync(isOnline) THEN syncStatus ELSE "syncing"
       ELSE UNCHANGED <<syncInProgress, pass, inFlight, passes, syncStatus>>
    /\ UNCHANGED <<ui, attempted, listing, mgr, calls, bus, rooms, queue, remote, clock, issued, isOnline, retryTimers, upd,
                   edits, faults, faultable, pulls, before, raced>>

\* forcSync, called by the user interface
ForcSync(counted) ==
    /\ SyncPendingItems(isOnline, counted)
    /\ syncStatus' = IF SkipSync(isOnline) THEN syncStatus ELSE "syncing"
    /\ UNCHANGED <<ui, attempted, listing, mgr, calls, bus, rooms, queue, remote, clock, issued, isOnline, retryTimers, upd,
                   edits, faults, faultable, pulls, before, raced>>

\* a setTimeout callback set by syncItem's catch block; it may be the last one
\* pending or not
RetryTimer(counted) ==
    /\ retryTimers
    /\ retryTimers' \in BOOLEAN
    /\ IF isOnline /\ ~syncInProgress
       THEN /\ SyncPendingItems(isOnline, counted)
            /\ syncStatus' = IF SkipSync(isOnline) THEN syncStatus ELSE "syncing"
       ELSE UNCHANGED <<syncInProgress, pass, inFlight, passes, syncStatus>>
    /\ UNCHANGED <<ui, attempted, listing, mgr, calls, bus, rooms, queue, remote, clock, issued, isOnline, upd, edits, faults,
                   faultable, pulls, before, raced>>

\* syncPendingItems: getPendingSyncItems resolves; syncItem starts on the first
\* item, or there is none and the pass completes; a rejection ends the pass
\* with sync-failed
PassGetPending ==
    /\ pass.pc = "getPending"
    /\ \/ /\ LET items == getPendingSyncItems(queue)
             IN IF Len(items) = 0
                THEN /\ pass' = IdlePass
                     /\ syncInProgress' = FALSE
                     /\ syncStatus' = "idle"
                     /\ inFlight' = inFlight - 1
                ELSE /\ pass' = StartItem([pass EXCEPT !.items = items], 1)
                     /\ UNCHANGED <<syncInProgress, syncStatus, inFlight>>
          /\ UNCHANGED faults
       \/ /\ CanFault("pass")
          /\ faults' = faults + 1
          /\ pass' = IdlePass
          /\ syncInProgress' = FALSE
          /\ syncStatus' = "error"
          /\ inFlight' = inFlight - 1
    /\ upd' = UpdAfter(pass')
    /\ UNCHANGED <<ui, attempted, listing, mgr, calls, bus, passes, faultable, pulls, before, rooms, queue, remote, clock, issued, isOnline, retryTimers, edits, raced>>

\* syncItem: updateSyncQueueItem(item) with syncStatus 'syncing' resolves and
\* the request is sent, or it rejects
PassMarkSyncing ==
    /\ pass.pc = "markSyncing"
    /\ \/ /\ queue' = PutItem(queue, CurrentItem(pass))
          /\ pass' = [pass EXCEPT !.pc = "push"]
          /\ UNCHANGED <<faults, retryTimers>>
       \/ /\ CanFault("pass")
          /\ faults' = faults + 1
          /\ EnterCatch
          /\ UNCHANGED queue
    /\ attempted' = Spread(attempted, (CurrentItem(pass).id :> Attempts(CurrentItem(pass).id) + 1))
    /\ upd' = UpdAfter(pass')
    /\ UNCHANGED <<ui, listing, mgr, calls, bus, passes, faultable, pulls, before, rooms, remote, clock, issued, isOnline, syncInProgress, syncStatus,
                   edits, inFlight, raced>>

\* syncRoomUpdate: the remote authority applies the body and echoes the record
PassPushAccepted ==
    /\ pass.pc = "push"
    /\ isOnline
    /\ \E now \in Now :
         LET rid == CurrentItem(pass).roomId
             echo == updateAssignment(remote[rid], apiData(CurrentItem(pass).data), now)
         IN /\ remote' = [remote EXCEPT ![rid] = echo]
            /\ clock' = now
            /\ pass' = [pass EXCEPT !.pc = "readLocal", !.echo = echo]
    /\ upd' = UpdAfter(pass')
    /\ UNCHANGED <<ui, attempted, listing, mgr, calls, bus, passes, faultable, pulls, before, rooms, queue, issued, isOnline, syncInProgress, syncStatus,
                   retryTimers, edits, faults, inFlight, raced>>

\* syncRoomUpdate: fetch throws or the response is not ok
PassPushFailed ==
    /\ pass.pc = "push"
    /\ EnterCatch
    /\ upd' = UpdAfter(pass')
    /\ UNCHANGED <<ui, attempted, listing, mgr, calls, bus, passes, faultable, pulls, before, rooms, queue, remote, clock, issued, isOnline, syncInProgress,
                   syncStatus, edits, faults, inFlight, raced>>

\* syncRoomUpdate: getRoomAssignment resolves; the merged record is saved when
\* the echo is not older than the local record
PassReadLocal ==
    /\ pass.pc = "readLocal"
    /\ \/ /\ LET localRoom == rooms[CurrentItem(pass).roomId]
             IN IF localRoom.id # 0 /\ EchoWins(pass.echo, localRoom)
                THEN pass' = [pass EXCEPT !.pc = "saveMerged",
                                          !.rec = mergedRoom(localRoom, pass.echo, clock)]
                ELSE pass' = [pass EXCEPT !.pc = "remove"]
          /\ UNCHANGED <<faults, retryTimers>>
       \/ /\ CanFault("pass")
          /\ faults' = faults + 1
          /\ EnterCatch
    /\ upd' = UpdAfter(pass')
    /\ UNCHANGED <<ui, attempted, listing, mgr, calls, bus, passes, faultable, pulls, before, rooms, queue, remote, clock, issued, isOnline, syncInProgress,
                   syncStatus, edits, inFlight, raced>>

\* syncRoomUpdate: saveRoomAssignment(mergedRoom) resolves
PassSaveMerged ==
    /\ pass.pc = "saveMerged"
    /\ \/ /\ rooms' = [rooms EXCEPT ![CurrentItem(pass).roomId] = pass.rec]
          /\ pass' = [pass EXCEPT !.pc = "remove"]
          /\ UNCHANGED <<faults, retryTimers>>
       \/ /\ CanFault("pass")
          /\ faults' = faults + 1
          /\ EnterCatch
          /\ UNCHANGED rooms
    /\ upd' = UpdAfter(pass')
    /\ UNCHANGED <<ui, attempted, listing, mgr, calls, bus, passes, faultable, pulls, before, queue, remote, clock, issued, isOnline, syncInProgress, syncStatus,
                   edits, inFlight, raced>>

\* syncItem: removeSyncQueueItem resolves
PassRemove ==
    /\ pass.pc = "remove"
    /\ \/ /\ queue' = DeleteItem(queue, CurrentItem(pass).id)
          /\ attempted' = DeleteItem(attempted, CurrentItem(pass).id)
          /\ pass' = [pass EXCEPT !.pc = "readRoom"]
          /\ UNCHANGED <<faults, retryTimers>>
       \/ /\ CanFault("pass")
          /\ faults' = faults + 1
          /\ EnterCatch
          /\ UNCHANGED <<queue, attempted>>
    /\ upd' = UpdAfter(pass')
    /\ UNCHANGED <<ui, listing, mgr, calls, bus, passes, faultable, pulls, before, rooms, remote, clock, issued, isOnline, syncInProgress, syncStatus,
                   edits, inFlight, raced>>

\* syncItem: getRoomAssignment resolves; the room is marked clean in memory
PassReadRoom ==
    /\ pass.pc = "readRoom"
    /\ \/ /\ LET room == rooms[CurrentItem(pass).roomId]
             IN IF room.id # 0
                THEN /\ pass' = [pass EXCEPT !.pc = "saveClean",
                                      !.rec = [room EXCEPT !.isDirty = FALSE,
                                                           !.lastSyncedAt = clock]]
                     /\ UNCHANGED <<syncInProgress, syncStatus, inFlight>>
                ELSE FinishItem
          /\ UNCHANGED <<faults, retryTimers>>
       \/ /\ CanFault("pass")
          /\ faults' = faults + 1
          /\ EnterCatch
          /\ UNCHANGED <<syncInProgress, syncStatus, inFlight>>
    /\ upd' = UpdAfter(pass')
    /\ UNCHANGED <<ui, attempted, listing, mgr, calls, bus, passes, faultable, pulls, before, rooms, queue, remote, clock, issued, isOnline, edits, raced>>

\* syncItem: saveRoomAssignment(room) resolves; the item is reported synced
PassSaveClean ==
    /\ pass.pc = "saveClean"
    /\ \/ /\ rooms' = [rooms EXCEPT ![CurrentItem(pass).roomId] = pass.rec]
          /\ FinishItem
          /\ UNCHANGED <<faults, retryTimers>>
       \/ /\ CanFault("pass")
          /\ faults' = faults + 1
          /\ EnterCatch
          /\ UNCHANGED <<rooms, syncInProgress, syncStatus, inFlight>>
    /\ upd' = UpdAfter(pass')
    /\ UNCHANGED <<ui, attempted, listing, mgr, calls, bus, passes, faultable, pulls, before, queue, remote, clock, issued, isOnline, edits, raced>>

\* syncItem, catch block: updateSyncQueueItem(item) resolves and the item is
\* reported failed; when it rejects, syncPendingItems catches and reports it
PassRecordFailure ==
    /\ pass.pc = "recordFailure"
    /\ \/ /\ queue' = PutItem(queue, CurrentItem(pass))
          /\ UNCHANGED faults
       \/ /\ CanFault("pass")
          /\ faults' = faults + 1
          /\ UNCHANGED queue
    /\ FinishItem
    /\ upd' = UpdAfter(pass')
    /\ UNCHANGED <<ui, attempted, listing, mgr, calls, bus, passes, faultable, pulls, before, rooms, remote, clock, issued, isOnline, retryTimers, edits, raced>>

(***************************************************************************)
(* The system                                                              *)
(***************************************************************************)
\* updateRoom, called at most limit times
UpdateRoom(limit) ==
    \/ \E roomId \in RoomIds, updateData \in Deltas :
          UpdateRoomRead(roomId, updateData, limit)
    \/ UpdateRoomSave
    \/ UpdateRoomEnqueue
    \/ UpdateRoomReturn

Triggers(counted) ==
    \/ OnlineEvent(counted)
    \/ OfflineEvent
    \/ PeriodicSync(counted)
    \/ ForcSync(counted)
    \/ RetryTimer(counted)

PassStep ==
    \/ PassGetPending
    \/ PassMarkSyncing
    \/ PassPushAccepted
    \/ PassPushFailed
    \/ PassReadLocal
    \/ PassSaveMerged
    \/ PassRemove
    \/ PassReadRoom
    \/ PassSaveClean
    \/ PassRecordFailure

Next ==
    \/ LoadFromServer
    \/ UpdateRoom(MaxEdits)
    \/ Triggers(TRUE)
    \/ PassStep

Spec == Init /\ [][Next]_vars

(***************************************************************************)
(* C1                                                                      *)
(***************************************************************************)
\* syncItem is running for an item of the room
PassBusyOn(roomId) == pass.pc \in ItemPcs /\ CurrentItem(pass).roomId = roomId

\* the local record carries every field value of the item's delta
CarriesDelta(room, item) ==
    \A k \in DOMAIN apiData(item.data) : room[k] = item.data[k]

\* C1: an edit made by updateRoom while a pass was pushing an earlier item of
\* the same room stays in the local record, and the record stays dirty, once
\* the pass is done with the earlier item and for as long as the edit's own
\* item is undelivered in the queue.
C1_RacedEditSurvives ==
    \A q \in raced :
        ( /\ q \in DOMAIN queue
          /\ queue[q].syncStatus \in {"pending", "failed"}
          /\ ~PassBusyOn(queue[q].roomId) )
        => /\ rooms[queue[q].roomId].isDirty
           /\ CarriesDelta(rooms[queue[q].roomId], queue[q])

(***************************************************************************)
(* C4                                                                      *)
(***************************************************************************)
\* what the user interface reads: getAllRooms over the whole store
ReadAllRooms == getAllRooms(getAllRoomAssignments(rooms))

\* C4: when updateRoom has succeeded while the client was offline and no pass
\* ran, getAllRooms returns for that id the previous record overlaid with the
\* delta, field by field; this holds for each edit of a sequence.
C4_ReadYourWrites ==
    (upd.pc = "done" /\ upd.quiet)
    => /\ upd.roomId \in DOMAIN ReadAllRooms
       /\ \A f \in SemanticFields :
            ReadAllRooms[upd.roomId][f] = Spread(upd.current, upd.data)[f]

\* the second edit of a sequence has succeeded offline, on a record the first
\* edit had changed
C4_Witness ==
    /\ upd.pc = "done" /\ upd.quiet
    /\ edits = 2
    /\ upd.current.isDirty
    /\ \E f \in DOMAIN upd.data : upd.current[f] # upd.data[f]

(***************************************************************************)
(* C6                                                                      *)
(***************************************************************************)
\* syncItem has been called for the k-th item of the pass
Attempted(k) == pass.pc # "idle" /\ k <= pass.idx

\* C6: of two items a pass attempts, the one enqueued earlier (smaller
\* createdAt) is attempted first, whatever the ids of the two items.
C6_FifoDelivery ==
    pass.pc # "idle" =>
        \A i, j \in 1..Len(pass.items) :
            (i < j /\ Attempted(i) /\ Attempted(j))
            => pass.items[i].createdAt <= pass.items[j].createdAt

(***************************************************************************)
(* C7                                                                      *)
(***************************************************************************)
\* a trigger of a sync pass
AnyTrigger ==
    OnlineEvent(TRUE) \/ PeriodicSync(TRUE) \/ ForcSync(TRUE) \/ RetryTimer(TRUE)

\* the step reads and writes no store, makes no remote call and leaves the
\* running pass where it is
NoSyncWork ==
    /\ UNCHANGED <<ui, attempted, listing, mgr, calls, bus, rooms, queue, remote, issued, syncInProgress, inFlight, passes>>
    /\ pass'.pc = pass.pc /\ pass'.items = pass.items /\ pass'.idx = pass.idx

\* C7: at most one sync pass is in flight at any time; a trigger that arrives
\* while a pass runs does no storage read and no remote call, and leaves no
\* pass queued for later.
C7_SinglePass ==
    /\ [](inFlight <= 1)
    /\ [][(syncInProgress /\ AnyTrigger) => NoSyncWork]_vars

\* a syncPendingItems call returned early during the pass that is running
C7_Witness ==
    /\ syncInProgress
    /\ inFlight = 1
    /\ pass.reentered

(***************************************************************************)
(* C10                                                                     *)
(***************************************************************************)
\* the queue holds an undelivered item for the room
HasUndelivered(roomId, statuses) ==
    \E q \in DOMAIN queue : queue[q].roomId = roomId /\ queue[q].syncStatus \in statuses

\* C10: every dirty local record has at least one item in the queue in state
\* pending or syncing.
C10_DirtyHasItem ==
    \A r \in RoomIds :
        (rooms[r].id # 0 /\ rooms[r].isDirty) => HasUndelivered(r, {"pending", "syncing"})

(***************************************************************************)
(* syncFromServer on its own: a local store and a server snapshot are      *)
(* drawn, and syncFromServer is applied to them                            *)
(***************************************************************************)
\* the records the server can hold for a room
ServerRecords(r) ==
    { [id |-> r, status |-> st, notes |-> "none", updatedAt |-> t] :
        st \in {"dirty", "clean"}, t \in 1..MaxTime }

\* the local records of a room: none, one pulled at time 1 from the seeded
\* server, or such a record edited once by updateRoom
LocalRecords(r) ==
    LET pulled == { convertToLocal([SeedRemote[r] EXCEPT !.updatedAt = t], 1) : t \in 1..MaxTime }
    IN {NoRoom} \cup pulled
         \cup { updatedRoom(c, d, t) : c \in pulled, d \in Deltas, t \in 1..MaxTime }

\* the server snapshots: any subset of the rooms, any record for each
Snapshots ==
    UNION { { f \in [D -> UNION {ServerRecords(r) : r \in D}] :
                \A r \in D : f[r] \in ServerRecords(r) } : D \in SUBSET RoomIds }

\* the queue that updateRoom has left for a store: one pending item for each
\* dirty record, carrying the delta the record shows; the room's id serves as
\* the item's uuid
QueueOf(store) ==
    [q \in {r \in RoomIds : store[r].id # 0 /\ store[r].isDirty} |->
        syncItemFor(q, q,
                    CHOOSE d \in Deltas : \A k \in DOMAIN d : store[q][k] = d[k],
                    store[q].version, store[q].updatedAt)]

MergeInit ==
    /\ rooms \in { f \in [RoomIds -> UNION {LocalRecords(r) : r \in RoomIds}] :
                     \A r \in RoomIds : f[r] \in LocalRecords(r) }
    /\ remote \in Snapshots
    /\ queue = QueueOf(rooms)
    /\ clock \in 1..MaxTime
    /\ issued = DOMAIN queue
    /\ isOnline = TRUE
    /\ syncInProgress = FALSE
    /\ syncStatus = "idle"
    /\ retryTimers = FALSE
    /\ upd = IdleUpd
    /\ pass = IdlePass
    /\ edits = 0
    /\ faults = 0
    /\ faultable = {}
    /\ passes = 0
    /\ inFlight = 0
    /\ pulls = 0
    /\ before = [r \in RoomIds |-> NoRoom]
    /\ raced = {}
    /\ ui = IdleUi
    /\ attempted = <<>>
    /\ listing = IdleListing
    /\ mgr = IdleMgr
    /\ calls = IdleCalls
    /\ bus = IdleBus

\* a caller hands the snapshot to syncFromServer
Pull ==
    /\ pulls < MaxPulls
    /\ \E now \in Now : SyncFromServer(remote, now) /\ clock' = now
    /\ UNCHANGED <<ui, attempted, listing, mgr, calls, bus, passes, faultable, queue, remote, issued, isOnline, syncInProgress,
                   retryTimers, upd, pass, edits, faults, inFlight, raced>>

MergeNext == Pull

MergeSpec == MergeInit /\ [][MergeNext]_vars

(***************************************************************************)
(* C2, C3                                                                  *)
(***************************************************************************)
\* the latest syncFromServer call found a dirty record of the room and the
\* snapshot held the room
DirtyBefore(r) ==
    /\ pulls > 0
    /\ before[r].id # 0
    /\ before[r].isDirty
    /\ r \in DOMAIN remote

\* C2: syncFromServer leaves a dirty local record as it is, still dirty, when
\* the server record's updatedAt is strictly older than the local one.
C2_OlderRemoteIgnored ==
    \A r \in RoomIds :
        (DirtyBefore(r) /\ remote[r].updatedAt < before[r].updatedAt)
        => (rooms[r] = before[r] /\ rooms[r].isDirty)

\* a dirty record met a strictly older server record with another status
C2_Witness ==
    \E r \in RoomIds :
        /\ DirtyBefore(r)
        /\ remote[r].updatedAt < before[r].updatedAt
        /\ remote[r].status # before[r].status

RetryInit ==
    /\ rooms = [r \in RoomIds |-> NoRoom]
    /\ queue = <<>>
    /\ remote = SeedRemote
    /\ clock = 1
    /\ issued = {}
    /\ isOnline \in BOOLEAN
    /\ syncInProgress = FALSE
    /\ syncStatus = "idle"
    /\ retryTimers = FALSE
    /\ upd = IdleUpd
    /\ pass = IdlePass
    /\ edits = 0
    /\ faults = 0
    /\ faultable = {}
    /\ passes = 0
    /\ inFlight = 0
    /\ pulls = 0
    /\ before = [r \in RoomIds |-> NoRoom]
    /\ raced = {}
    /\ ui = IdleUi
    /\ attempted = <<>>
    /\ listing = IdleListing
    /\ mgr = IdleMgr
    /\ calls = IdleCalls
    /\ bus = IdleBus

RetryNext ==
    \/ LoadFromServer
    \/ UpdateRoom(1)
    \/ Triggers(FALSE)
    \/ PassStep

RetryFairness ==
    /\ WF_vars(UpdateRoomSave \/ UpdateRoomEnqueue \/ UpdateRoomReturn)
    /\ WF_vars(PassStep)
    /\ WF_vars(OnlineEvent(FALSE))
    /\ SF_vars(PeriodicSync(FALSE))

RetrySpec == RetryInit /\ [][RetryNext]_vars /\ RetryFairness

(***************************************************************************)
(* C5, C8                                                                  *)
(***************************************************************************)
\* C5: an item whose every attempt fails is out of the queue once it has
\* failed N = retryDelays.length times: no item in the queue has failed N times.
C5_DroppedAtRetryBound ==
    \A q \in DOMAIN queue : queue[q].retryCount < RetryDelaysLength

\* C8: with the network online again and again and the triggers firing, every
\* item that is pending or failed is out of the queue some time later,
\* delivered or dropped.
C8_EveryItemLeaves ==
    \A q \in ItemIds :
        (q \in DOMAIN queue /\ queue[q].syncStatus \in {"pending", "failed"})
            ~> (q \notin DOMAIN queue)

(***************************************************************************)
(* The offline edit that is delivered: a store pulled from the seeded      *)
(* server and edited once offline; then the network comes back, the        *)
(* server accepts every push and no storage request fails                  *)
(***************************************************************************)
\* the store after the first load
LoadedStore == syncFromServer([r \in RoomIds |-> NoRoom], SeedRemote, 1)

ScenarioInit ==
    \E roomId \in RoomIds, updateData \in Deltas, now \in 1..MaxTime, uuid \in ItemIds :
        LET room == updatedRoom(LoadedStore[roomId], updateData, now)
        IN /\ rooms = [LoadedStore EXCEPT ![roomId] = room]
           /\ queue = PutItem(<<>>, syncItemFor(uuid, roomId, updateData, room.version, now))
           /\ remote = SeedRemote
           /\ clock = now
           /\ issued = {uuid}
           /\ isOnline = FALSE
           /\ syncInProgress = FALSE
           /\ syncStatus = "idle"
           /\ retryTimers = FALSE
           /\ upd = IdleUpd
           /\ pass = IdlePass
           /\ edits = 1
           /\ faults = 0
           /\ faultable = {}
           /\ passes = 0
           /\ inFlight = 0
           /\ pulls = 1
           /\ before = [r \in RoomIds |-> NoRoom]
           /\ raced = {}
           /\ ui = IdleUi
           /\ attempted = <<>>
           /\ listing = IdleListing
           /\ mgr = IdleMgr
           /\ calls = IdleCalls
           /\ bus = IdleBus

\* the steps of a pass whose pushes are accepted
ScenarioPass ==
    \/ PassGetPending
    \/ PassMarkSyncing
    \/ PassPushAccepted
    \/ PassReadLocal
    \/ PassSaveMerged
    \/ PassRemove
    \/ PassReadRoom
    \/ PassSaveClean

ScenarioNext ==
    \/ OnlineEvent(FALSE)
    \/ PeriodicSync(FALSE)
    \/ ForcSync(FALSE)
    \/ ScenarioPass

ScenarioSpec ==
    /\ ScenarioInit
    /\ [][ScenarioNext]_vars
    /\ WF_vars(OnlineEvent(FALSE))
    /\ WF_vars(ScenarioPass)

(***************************************************************************)
(* C9                                                                      *)
(***************************************************************************)
\* the queue is empty and every local record is clean, has lastSyncedAt set
\* and carries the fields of the server's record
Reconciled ==
    /\ queue = <<>>
    /\ \A r \in RoomIds :
        /\ ~rooms[r].isDirty
        /\ rooms[r].lastSyncedAt # NoTime
        /\ \A f \in SemanticFields \cup {"updatedAt"} : rooms[r][f] = remote[r][f]

\* C9: a record edited once offline is reconciled some time after the network
\* is back, when the server accepts the push and its echo is not older than
\* the local record: the queue is empty, the record is clean with
\* lastSyncedAt set, and its fields are those the server echoed.
C9_OfflineEditDelivered == <>Reconciled

\* the edit has been pushed, the server's record has changed, and the pass
\* has returned with the store reconciled
C9_Witness ==
    /\ Reconciled
    /\ pass = IdlePass
    /\ issued # {}
    /\ \E r \in RoomIds : remote[r] # SeedRemote[r]

(***************************************************************************)
(* C11                                                                     *)
(***************************************************************************)
\* the remote authority has accepted the push of the item the pass is on, and
\* syncItem has not yet removed the item
PushAccepted(q) ==
    /\ pass.pc \in {"readLocal", "saveMerged", "remove"}
    /\ CurrentItem(pass).id = q

\* the items of the room that are pending or syncing and not yet accepted
UndeliveredItems(roomId) ==
    { q \in DOMAIN queue :
        /\ queue[q].roomId = roomId
        /\ queue[q].syncStatus \in {"pending", "syncing"}
        /\ ~PushAccepted(q) }

\* C11: a local record with isDirty = false has no pending or syncing item
\* that the remote authority has yet to accept.
C11_CleanHasNoItem ==
    \A r \in RoomIds :
        (rooms[r].id # 0 /\ ~rooms[r].isDirty) => UndeliveredItems(r) = {}

(***************************************************************************)
(* C12                                                                     *)
(***************************************************************************)
\* a step of syncRoomUpdate or syncItem that writes the local record of the
\* item whose push was accepted
WritesAfterPush == PassSaveMerged \/ PassSaveClean

\* C12: after an accepted push, when the echo's updatedAt is older than the
\* local record's, the writes that follow leave the local record as it was:
\* fields, updatedAt and isDirty.
C12_OlderEchoLeavesRecord ==
    [][ \A r \in RoomIds :
          ( /\ pass.pc \in {"saveMerged", "saveClean"}
            /\ CurrentItem(pass).roomId = r
            /\ rooms[r].id # 0
            /\ ~EchoWins(pass.echo, rooms[r])
            /\ WritesAfterPush )
          => rooms'[r] = rooms[r] ]_vars

(***************************************************************************)
(* C13                                                                     *)
(***************************************************************************)
\* the items of the same room that an edit made before the item's edit has
\* put in the queue and that are still there; updateRoom numbers the edits of
\* a room with version
EarlierEditsQueued(item) ==
    { j \in DOMAIN queue :
        /\ queue[j].roomId = item.roomId
        /\ queue[j].data.version < item.data.version }

\* C13: the remote authority receives the deltas of two edits of one record
\* in the order the edits were made: a push is accepted only when no earlier
\* edit of the same record is still waiting in the queue.
C13_PerRecordOrder ==
    [][ PassPushAccepted => EarlierEditsQueued(CurrentItem(pass)) = {} ]_vars

(***************************************************************************)
(* C14                                                                     *)
(***************************************************************************)
\* the two stores hold the same records with the same fields and isDirty
SameReplicas(a, b) ==
    \A r \in RoomIds :
        /\ a[r].id = b[r].id
        /\ a[r].id # 0 =>
             /\ a[r].isDirty = b[r].isDirty
             /\ \A f \in SemanticFields \cup {"updatedAt"} : a[r][f] = b[r][f]

\* C14: syncFromServer applied a second time with the same snapshot leaves
\* every record with the fields and the isDirty flag the first application
\* gave it, whether the record was absent, clean or dirty.
C14_PullIdempotent == (pulls = 2) => SameReplicas(rooms, before)

\* the second application wrote a clean record again, at a later time, and
\* met a dirty one
C14_Witness ==
    /\ pulls = 2
    /\ \E r \in RoomIds :
        rooms[r].id # 0 /\ before[r].id # 0 /\ rooms[r].lastSyncedAt # before[r].lastSyncedAt
    /\ \E r \in RoomIds : rooms[r].id # 0 /\ rooms[r].isDirty /\ r \in DOMAIN remote

(***************************************************************************)
(* C15                                                                     *)
(***************************************************************************)
\* the latest syncFromServer call found a clean record of the room and the
\* snapshot held the room
CleanBefore(r) ==
    /\ pulls > 0
    /\ before[r].id # 0
    /\ ~before[r].isDirty
    /\ r \in DOMAIN remote

\* C15: syncFromServer writes the server record's fields over a clean local
\* record whatever the two updatedAt values are, and the record stays clean
\* with lastSyncedAt set.
C15_CleanOverwritten ==
    \A r \in RoomIds :
        CleanBefore(r)
        => /\ ~rooms[r].isDirty
           /\ rooms[r].lastSyncedAt # NoTime
           /\ \A f \in SemanticFields \cup {"updatedAt"} : rooms[r][f] = remote[r][f]

\* a clean record met a server record with another status and an older stamp
C15_Witness ==
    \E r \in RoomIds :
        /\ CleanBefore(r)
        /\ remote[r].status # before[r].status
        /\ remote[r].updatedAt < before[r].updatedAt

(***************************************************************************)
(* C16                                                                     *)
(***************************************************************************)
\* the latest syncFromServer call found no record of the room and the
\* snapshot held the room
AbsentBefore(r) ==
    /\ pulls > 0
    /\ before[r].id = 0
    /\ r \in DOMAIN remote

\* the record syncFromServer inserts for a room that had none
Inserted(r) ==
    /\ rooms[r].id = r
    /\ ~rooms[r].isDirty
    /\ rooms[r].lastSyncedAt # NoTime
    /\ \A f \in SemanticFields \cup {"updatedAt"} : rooms[r][f] = remote[r][f]

\* C16: a record the pull returns for an id with no local record is inserted
\* clean with lastSyncedAt set, and no syncFromServer call changes the queue.
C16_InsertedClean ==
    /\ [](\A r \in RoomIds : AbsentBefore(r) => Inserted(r))
    /\ [][pulls' # pulls => queue' = queue]_vars

\* a record was inserted for a room that had none while the queue held the
\* item of another room
C16_Witness ==
    /\ \E r \in RoomIds : AbsentBefore(r) /\ Inserted(r)
    /\ queue # <<>>

(***************************************************************************)
(* C17                                                                     *)
(***************************************************************************)
\* C17: a syncFromServer call leaves every local record whose id the snapshot
\* does not hold exactly as it was, and removes no local record.
C17_NoImplicitDelete ==
    [][ pulls' # pulls =>
          \A r \in RoomIds :
              /\ r \notin DOMAIN remote => rooms'[r] = rooms[r]
              /\ rooms[r].id # 0 => rooms'[r].id # 0 ]_vars

\* after a call a record the snapshot does not hold is in the store, and the
\* call has written the other room's record
C17_Witness ==
    /\ pulls > 0
    /\ \E r \in RoomIds : r \notin DOMAIN remote /\ rooms[r].id # 0
    /\ \E r \in RoomIds : r \in DOMAIN remote /\ rooms[r] # before[r]

(***************************************************************************)
(* C18                                                                     *)
(***************************************************************************)
\* a step of an updateRoom call that finds no record: the read that throws,
\* or the error reaching the caller
NotFoundStep == upd'.pc # upd.pc /\ "notFound" \in {upd.pc, upd'.pc}

\* C18: updateRoom for an id with no local record ends with the not-found
\* error, and its steps leave the record store and the queue as they were and
\* set no timer that publishes an event.
C18_NotFoundChangesNothing ==
    /\ [](upd.pc = "notFound" => ~upd.emits)
    /\ [][NotFoundStep => UNCHANGED <<rooms, queue, issued>>]_vars

\* updateRoom has thrown not-found for a room with no local record
C18_Witness ==
    /\ upd.pc = "notFound"
    /\ rooms[upd.roomId] = NoRoom

(***************************************************************************)
(* C19                                                                     *)
(***************************************************************************)
\* saveRoomAssignment(updatedRoom) of an updateRoom call resolves
SaveStep == upd.pc = "save" /\ upd'.pc = "enqueue"

\* addToSyncQueue(syncItem) of an updateRoom call resolves
EnqueueStep == upd.pc = "enqueue" /\ upd'.pc = "done"

\* the queue after the step is the queue before it and one new item for the
\* room: an update, pending, never tried
OneItemAdded(roomId) ==
    /\ Cardinality(DOMAIN queue' \ DOMAIN queue) = 1
    /\ \A q \in DOMAIN queue : q \in DOMAIN queue' /\ queue'[q] = queue[q]
    /\ \A q \in DOMAIN queue' \ DOMAIN queue :
        /\ queue'[q].roomId = roomId
        /\ queue'[q].changeType = "update"
        /\ queue'[q].syncStatus = "pending"
        /\ queue'[q].retryCount = 0

\* C19: a successful updateRoom leaves the record dirty, with version one
\* greater than that of the record the call read (the record before the call)
\* and updatedAt the time of the edit, and adds exactly one item for the room
\* (update, pending, retryCount 0); it changes no other record and no item
\* already in the queue.
C19_UpdateRoomEffect ==
    [][ /\ SaveStep =>
            /\ rooms'[upd.roomId].isDirty
            /\ rooms'[upd.roomId].version = upd.current.version + 1
            /\ rooms'[upd.roomId].updatedAt = upd.at
            /\ \A r \in RoomIds \ {upd.roomId} : rooms'[r] = rooms[r]
            /\ queue' = queue
        /\ EnqueueStep =>
            /\ rooms' = rooms
            /\ OneItemAdded(upd.roomId) ]_vars

\* a second updateRoom call has succeeded while the first call's item was in
\* the queue
C19_Witness ==
    /\ upd.pc = "done"
    /\ Cardinality(DOMAIN queue) = 2
    /\ rooms[upd.roomId].version = 2

(***************************************************************************)
(* OfflineManager.bulkUpdateRooms on its own: a store that holds some of   *)
(* the rooms, and one call with a drawn batch                              *)
(***************************************************************************)
\* saveMultipleRoomAssignments: store.put of each record, in order
RECURSIVE saveMultipleRoomAssignments(_, _)
saveMultipleRoomAssignments(store, list) ==
    IF list = <<>> THEN store
    ELSE saveMultipleRoomAssignments([store EXCEPT ![Head(list).id] = Head(list)], Tail(list))

\* the updated record that is not marked dirty
bulkUpdatedRoomNotDirty(currentRoom, updateData, now) ==
    [Spread(currentRoom, updateData) EXCEPT !.updatedAt = now]

\* bulkUpdateRooms: the updated record of one member (no version increment)
bulkUpdatedRoom(currentRoom, updateData, now) ==
    [Spread(currentRoom, updateData) EXCEPT !.updatedAt = now, !.isDirty = TRUE]

\* bulkUpdateRooms: the queue item of one member (the delta alone as data)
bulkSyncItem(uuid, roomId, updateData, now) ==
    [id |-> uuid, roomId |-> roomId, changeType |-> "update", data |-> updateData,
     syncStatus |-> "pending", retryCount |-> 0, createdAt |-> now]

\* the batches: sequences of { roomId, data }
Batches ==
    UNION { [1..n -> [roomId : RoomIds, data : Deltas]] : n \in 0..MaxBatch }

\* the stores that hold the loaded records of some of the rooms
PartialStores ==
    { [r \in RoomIds |-> IF r \in P THEN LoadedStore[r] ELSE NoRoom] : P \in SUBSET RoomIds }

BulkInit ==
    /\ rooms \in PartialStores
    /\ queue = <<>>
    /\ remote = SeedRemote
    /\ clock = 1
    /\ issued = {}
    /\ isOnline = FALSE
    /\ syncInProgress = FALSE
    /\ syncStatus = "idle"
    /\ retryTimers = FALSE
    /\ upd = IdleUpd
    /\ pass = IdlePass
    /\ edits = 0
    /\ faults = 0
    /\ faultable = {}
    /\ passes = 0
    /\ inFlight = 0
    /\ pulls = 1
    /\ before = [r \in RoomIds |-> NoRoom]
    /\ raced = {}
    /\ ui = IdleUi
    /\ attempted = <<>>
    /\ listing = IdleListing
    /\ mgr = IdleMgr
    /\ calls = IdleCalls
    /\ bus = IdleBus

\* the frame of a bulkUpdateRooms call at the head of its first loop, or past
\* the loop when the members are used up
BulkLoop(frame, k) ==
    [frame EXCEPT !.pc = IF k <= Len(frame.updates) THEN "bulkRead" ELSE "bulkSave",
                  !.idx = k]

\* bulkUpdateRooms is called
BulkUpdateRooms(updates) ==
    /\ upd.pc = "idle"
    /\ edits < 1
    /\ edits' = edits + 1
    /\ upd' = BulkLoop([pc |-> "bulkRead", updates |-> updates, idx |-> 1,
                        updatedRooms |-> <<>>, syncItems |-> <<>>, result |-> <<>>], 1)
    /\ UNCHANGED <<ui, attempted, listing, mgr, calls, bus, rooms, queue, remote, clock, issued, isOnline, syncInProgress, syncStatus,
                   retryTimers, pass, faults, faultable, passes, inFlight, pulls, before,
                   raced>>

\* first loop: getRoomAssignment resolves for a member; a missing room is
\* skipped with a warning, otherwise the record and the item are collected
BulkRead ==
    /\ upd.pc = "bulkRead"
    /\ LET update == upd.updates[upd.idx]
           currentRoom == rooms[update.roomId]
       IN IF currentRoom = NoRoom
          THEN /\ upd' = BulkLoop(upd, upd.idx + 1)
               /\ UNCHANGED <<clock, issued>>
          ELSE \E now \in Now, uuid \in ItemIds \ issued :
                 /\ upd' = BulkLoop(
                       [upd EXCEPT
                          !.updatedRooms = Append(@, bulkUpdatedRoom(currentRoom, update.data, now)),
                          !.syncItems = Append(@, bulkSyncItem(uuid, update.roomId,
                                                               update.data, now))],
                       upd.idx + 1)
                 /\ clock' = now
                 /\ issued' = issued \cup {uuid}
    /\ UNCHANGED <<ui, attempted, listing, mgr, calls, bus, rooms, queue, remote, isOnline, syncInProgress, syncStatus, retryTimers,
                   pass, edits, faults, faultable, passes, inFlight, pulls, before, raced>>

\* bulkUpdateRooms: what the call returns
bulkResult(updatedRooms) ==
    [i \in 1..Len(updatedRooms) |-> convertFromLocal(updatedRooms[i])]

\* saveMultipleRoomAssignments(updatedRooms) resolves and the second loop
\* starts, or it rejects and bulkUpdateRooms throws
BulkSave ==
    /\ upd.pc = "bulkSave"
    /\ \/ /\ rooms' = saveMultipleRoomAssignments(rooms, upd.updatedRooms)
          /\ upd' = IF upd.syncItems = <<>>
                    THEN [upd EXCEPT !.pc = "bulkDone",
                                     !.result = bulkResult(upd.updatedRooms)]
                    ELSE [upd EXCEPT !.pc = "bulkEnqueue", !.idx = 1]
          /\ UNCHANGED faults
       \/ /\ CanFault("edit")
          /\ faults' = faults + 1
          /\ upd' = IdleUpd
          /\ UNCHANGED rooms
    /\ UNCHANGED <<ui, attempted, listing, mgr, calls, bus, queue, remote, clock, issued, isOnline, syncInProgress, syncStatus,
                   retryTimers, pass, edits, faultable, passes, inFlight, pulls, before,
                   raced>>

\* second loop: addToSyncQueue resolves for an item; after the last one the
\* room-updated events are emitted and the updated rooms returned
BulkEnqueue ==
    /\ upd.pc = "bulkEnqueue"
    /\ \/ /\ queue' = PutItem(queue, upd.syncItems[upd.idx])
          /\ upd' = IF upd.idx < Len(upd.syncItems)
                    THEN [upd EXCEPT !.idx = upd.idx + 1]
                    ELSE [upd EXCEPT !.pc = "bulkDone",
                                     !.result = bulkResult(upd.updatedRooms)]
          /\ UNCHANGED faults
       \/ /\ CanFault("edit")
          /\ faults' = faults + 1
          /\ upd' = IdleUpd
          /\ UNCHANGED queue
    /\ UNCHANGED <<ui, attempted, listing, mgr, calls, bus, rooms, remote, clock, issued, isOnline, syncInProgress, syncStatus,
                   retryTimers, pass, edits, faultable, passes, inFlight, pulls, before,
                   raced>>

\* the caller takes the returned rooms
BulkReturn ==
    /\ upd.pc = "bulkDone"
    /\ upd' = IdleUpd
    /\ UNCHANGED <<ui, attempted, listing, mgr, calls, bus, rooms, queue, remote, clock, issued, isOnline, syncInProgress,
                   syncStatus, retryTimers, pass, edits, faults, faultable, passes,
                   inFlight, pulls, before, raced>>

BulkNext ==
    \/ \E updates \in Batches : BulkUpdateRooms(updates)
    \/ BulkRead
    \/ BulkSave
    \/ BulkEnqueue
    \/ BulkReturn

BulkSpec == BulkInit /\ [][BulkNext]_vars

(***************************************************************************)
(* C20                                                                     *)
(***************************************************************************)
\* the room of the i-th member of the batch has a local record
Found(i) == rooms[upd.updates[i].roomId] # NoRoom

\* the members of the batch name different rooms
DistinctIds ==
    \A i, j \in 1..Len(upd.updates) :
        i # j => upd.updates[i].roomId # upd.updates[j].roomId

\* the edit of the i-th member is in the local record and in the queue
Applied(i) ==
    LET update == upd.updates[i]
    IN /\ rooms[update.roomId].isDirty
       /\ \A k \in DOMAIN update.data : rooms[update.roomId][k] = update.data[k]
       /\ \E q \in DOMAIN queue :
            /\ queue[q].roomId = update.roomId
            /\ queue[q].data = update.data
            /\ queue[q].syncStatus = "pending"

\* every edit whose room exists is applied and enqueued, and nothing is done
\* for a member whose room does not exist
AppliesFound ==
    \A i \in 1..Len(upd.updates) :
        IF Found(i) THEN Applied(i)
        ELSE \A q \in DOMAIN queue : queue[q].roomId # upd.updates[i].roomId

StoreAtCall ==
    [r \in RoomIds |-> IF rooms[r] = NoRoom THEN NoRoom ELSE LoadedStore[r]]

\* the store after updateRoom has succeeded once for each member, in order
RECURSIVE updateRoomEach(_, _, _)
updateRoomEach(store, updates, now) ==
    IF updates = <<>> THEN store
    ELSE LET update == Head(updates)
         IN updateRoomEach(
              [store EXCEPT ![update.roomId] = updatedRoom(store[update.roomId], update.data, now)],
              Tail(updates), now)

\* the two records agree on the fields, the dirty flag and the version
SameEdited(a, b) ==
    /\ a.id = b.id
    /\ a.id # 0 =>
         /\ a.isDirty = b.isDirty
         /\ a.version = b.version
         /\ \A f \in SemanticFields : a[f] = b[f]

\* the queue holds one pending item for each member of the batch
OneItemPerEdit ==
    /\ Cardinality(DOMAIN queue) = Len(upd.updates)
    /\ \A q \in DOMAIN queue : queue[q].syncStatus = "pending"
    /\ \A r \in RoomIds :
         Cardinality({q \in DOMAIN queue : queue[q].roomId = r})
           = Cardinality({i \in 1..Len(upd.updates) : upd.updates[i].roomId = r})

\* C21: after bulkUpdateRooms on a batch of edits to existing rooms, the
\* record store and the queue are those that one updateRoom call per member,
\* in batch order, would leave: same fields, dirty, version one higher for
\* each edit (two edits of one room in a batch included), one pending item
\* for each edit.
C21_BulkIsUpdateRoomEach ==
    (upd.pc = "bulkDone" /\ \A i \in 1..Len(upd.updates) : Found(i))
    => /\ \A r \in RoomIds :
            SameEdited(rooms[r], updateRoomEach(StoreAtCall, upd.updates, clock)[r])
       /\ OneItemPerEdit

(***************************************************************************)
(* C22                                                                     *)
(***************************************************************************)
\* the items that are in the queue before and after the step
KeptItems == DOMAIN queue \cap DOMAIN queue'

DefaultMaxRetries == 3
\* forceSyncNow: triggerSync({ maxRetries: 1 })
ForceMaxRetries == 1

\* SyncService.isSyncing: set at the start of triggerSync, cleared in finally
isSyncing == pass.pc # "idle"

\* SyncService.syncRoomUpdate: const { version, isDirty, lastSyncedAt, ...cleanData }
cleanData(data) == Omit(data, {"version", "isDirty", "lastSyncedAt"})

\* SyncService.syncRoomUpdate: updatedLocalRoom
updatedLocalRoom(localRoom, serverRoom) ==
    [Spread(localRoom, serverRoom) EXCEPT !.isDirty = FALSE, !.updatedAt = serverRoom.updatedAt]

\* OfflineManager.markSyncItemFailed: the item as it is written back
markedFailed(item) ==
    [item EXCEPT !.syncStatus = "failed", !.retryCount = item.retryCount + 1]

\* OfflineManager.markSyncItemFailed(syncItemId): getSyncQueue, find, put
markSyncItemFailed(q, syncItemId) ==
    IF syncItemId \in DOMAIN q THEN PutItem(q, markedFailed(q[syncItemId])) ELSE q

\* the stores and queues two offline updateRoom calls leave, the items having
\* failed rc1 and rc2 times in earlier passes; tasks are those whose storage
\* requests may be rejected from now on
EditedTwice(counts, tasks) ==
    \E r1, r2 \in RoomIds, d1, d2 \in Deltas, u1, u2 \in ItemIds, t2 \in 1..2,
       rc1, rc2 \in counts :
        LET room1 == updatedRoom(LoadedStore[r1], d1, 1)
            store1 == [LoadedStore EXCEPT ![r1] = room1]
            room2 == updatedRoom(store1[r2], d2, t2)
            item1 == [syncItemFor(u1, r1, d1, room1.version, 1) EXCEPT !.retryCount = rc1]
            item2 == [syncItemFor(u2, r2, d2, room2.version, t2) EXCEPT !.retryCount = rc2]
        IN /\ u1 # u2
           /\ rooms = [store1 EXCEPT ![r2] = room2]
           /\ queue = PutItem(PutItem(<<>>, item1), item2)
           /\ remote = SeedRemote
           /\ clock = t2
           /\ issued = {u1, u2}
           /\ isOnline \in BOOLEAN
           /\ syncInProgress = FALSE
           /\ syncStatus = "idle"
           /\ retryTimers = FALSE
           /\ upd = IdleUpd
           /\ pass = IdlePass
           /\ edits = 2
           /\ faults = 0
           /\ faultable = tasks
           /\ passes = 0
           /\ inFlight = 0
           /\ pulls = 1
           /\ before = [r \in RoomIds |-> NoRoom]
           /\ raced = {}
           /\ ui = IdleUi
           /\ attempted = <<>>
           /\ listing = IdleListing
           /\ mgr = IdleMgr
           /\ calls = IdleCalls
           /\ bus = IdleBus

TriggerInit == EditedTwice({0, DefaultMaxRetries}, {})

\* triggerSync(options): the two early returns, or isSyncing is set and the
\* fetch of the remote collection is sent
TriggerSync(online, maxRetries) ==
    IF ~online \/ isSyncing
    THEN UNCHANGED <<pass, passes>>
    ELSE /\ passes < MaxPasses
         /\ passes' = passes + 1
         /\ pass' = [pc |-> "fetch", maxRetries |-> maxRetries, serverRooms |-> <<>>,
                     items |-> <<>>, idx |-> 0, localRoom |-> NoRoom, rec |-> NoRoom,
                     pulled |-> FALSE, pushed |-> FALSE]

\* window 'online': handleOnline
HandleOnline ==
    /\ ~isOnline
    /\ isOnline' = TRUE
    /\ TriggerSync(TRUE, DefaultMaxRetries)
    /\ UNCHANGED <<ui, attempted, listing, mgr, calls, bus, rooms, queue, remote, clock, issued, syncInProgress, syncStatus,
                   retryTimers, upd, edits, faults, faultable, inFlight, pulls, before,
                   raced>>

\* window 'offline': handleOffline
HandleOffline ==
    /\ isOnline
    /\ isOnline' = FALSE
    /\ UNCHANGED <<ui, attempted, listing, mgr, calls, bus, rooms, queue, remote, clock, issued, syncInProgress, syncStatus,
                   retryTimers, upd, pass, edits, faults, faultable, passes, inFlight,
                   pulls, before, raced>>

\* the setInterval callback of SyncService.startPeriodicSync
SvcPeriodicSync ==
    /\ IF isOnline /\ ~isSyncing
       THEN TriggerSync(isOnline, DefaultMaxRetries)
       ELSE UNCHANGED <<pass, passes>>
    /\ UNCHANGED <<ui, attempted, listing, mgr, calls, bus, rooms, queue, remote, clock, issued, isOnline, syncInProgress,
                   syncStatus, retryTimers, upd, edits, faults, faultable, inFlight,
                   pulls, before, raced>>

\* forceSyncNow, called by the user interface
ForceSyncNow ==
    /\ TriggerSync(isOnline, ForceMaxRetries)
    /\ UNCHANGED <<ui, attempted, listing, mgr, calls, bus, rooms, queue, remote, clock, issued, isOnline, syncInProgress,
                   syncStatus, retryTimers, upd, edits, faults, faultable, inFlight,
                   pulls, before, raced>>

\* SyncService.syncFromServer: the fetch resolves ok and
\* OfflineManager.syncFromServer sets the status and reads the store
SvcFetchOk ==
    /\ pass.pc = "fetch"
    /\ isOnline
    /\ pass' = [pass EXCEPT !.pc = "pull", !.serverRooms = remote]
    /\ syncStatus' = "syncing"
    /\ UNCHANGED <<ui, attempted, listing, mgr, calls, bus, rooms, queue, remote, clock, issued, isOnline, syncInProgress,
                   retryTimers, upd, edits, faults, faultable, passes, inFlight, pulls,
                   before, raced>>

\* SyncService.syncFromServer: the fetch throws or the response is not ok;
\* triggerSync catches and its finally block runs
SvcFetchFailed ==
    /\ pass.pc = "fetch"
    /\ pass' = IdlePass
    /\ UNCHANGED <<ui, attempted, listing, mgr, calls, bus, rooms, queue, remote, clock, issued, isOnline, syncInProgress,
                   syncStatus, retryTimers, upd, edits, faults, faultable, passes,
                   inFlight, pulls, before, raced>>

\* OfflineManager.syncFromServer saves and sets the status to idle; syncToServer
\* requests the pending items
SvcPull ==
    /\ pass.pc = "pull"
    /\ \E now \in Now : SyncFromServer(pass.serverRooms, now) /\ clock' = now
    /\ pass' = [pass EXCEPT !.pc = "svcGetPending", !.pulled = TRUE]
    /\ UNCHANGED <<ui, attempted, listing, mgr, calls, bus, queue, remote, issued, isOnline, syncInProgress, retryTimers, upd,
                   edits, faults, faultable, passes, inFlight, raced>>

\* the frame of a triggerSync call after the i-th item: syncRoomUpdate reads
\* the record of the next item, or syncToServer returns and setLastSyncTime
\* is requested
SvcAfterItem(p) ==
    IF p.idx < Len(p.items)
    THEN [p EXCEPT !.pc = "svcReadLocal", !.idx = p.idx + 1,
                   !.localRoom = NoRoom, !.rec = NoRoom]
    ELSE [p EXCEPT !.pc = "svcLastSync", !.pushed = TRUE]

\* syncToServer: getPendingSyncItems resolves
SvcGetPending ==
    /\ pass.pc = "svcGetPending"
    /\ pass' = SvcAfterItem([pass EXCEPT !.items = getPendingSyncItems(queue), !.idx = 0])
    /\ UNCHANGED <<ui, attempted, listing, mgr, calls, bus, rooms, queue, remote, clock, issued, isOnline, syncInProgress,
                   syncStatus, retryTimers, upd, edits, faults, faultable, passes,
                   inFlight, pulls, before, raced>>

\* SyncService.syncRoomUpdate: getRoomAssignment resolves; no record ends the
\* item as completed, otherwise the PUT is sent
SvcReadLocal ==
    /\ pass.pc = "svcReadLocal"
    /\ LET localRoom == rooms[CurrentItem(pass).roomId]
       IN pass' = IF localRoom = NoRoom
                  THEN [pass EXCEPT !.pc = "svcComplete"]
                  ELSE [pass EXCEPT !.pc = "svcPut", !.localRoom = localRoom]
    /\ UNCHANGED <<ui, attempted, listing, mgr, calls, bus, rooms, queue, remote, clock, issued, isOnline, syncInProgress,
                   syncStatus, retryTimers, upd, edits, faults, faultable, passes,
                   inFlight, pulls, before, raced>>

\* SyncService.syncRoomUpdate: the remote authority applies the body and
\* answers with the record; saveRoomAssignment is requested
SvcPutAccepted ==
    /\ pass.pc = "svcPut"
    /\ isOnline
    /\ \E now \in Now :
         LET rid == CurrentItem(pass).roomId
             serverRoom == updateAssignment(remote[rid], cleanData(CurrentItem(pass).data), now)
         IN /\ remote' = [remote EXCEPT ![rid] = serverRoom]
            /\ clock' = now
            /\ pass' = [pass EXCEPT !.pc = "svcSave",
                                    !.rec = updatedLocalRoom(pass.localRoom, serverRoom)]
    /\ UNCHANGED <<ui, attempted, listing, mgr, calls, bus, rooms, queue, issued, isOnline, syncInProgress, syncStatus,
                   retryTimers, upd, edits, faults, faultable, passes, inFlight, pulls,
                   before, raced>>

\* processBatch, catch block: the PUT failed; the item is marked failed when
\* item.retryCount < maxRetries and removed otherwise
SvcPutFailed ==
    /\ pass.pc = "svcPut"
    /\ pass' = [pass EXCEPT !.pc = IF CurrentItem(pass).retryCount < pass.maxRetries
                                   THEN "svcFail" ELSE "svcComplete"]
    /\ UNCHANGED <<ui, attempted, listing, mgr, calls, bus, rooms, queue, remote, clock, issued, isOnline, syncInProgress,
                   syncStatus, retryTimers, upd, edits, faults, faultable, passes,
                   inFlight, pulls, before, raced>>

\* SyncService.syncRoomUpdate: saveRoomAssignment(updatedLocalRoom) resolves
SvcSave ==
    /\ pass.pc = "svcSave"
    /\ rooms' = [rooms EXCEPT ![CurrentItem(pass).roomId] = pass.rec]
    /\ pass' = [pass EXCEPT !.pc = "svcComplete"]
    /\ UNCHANGED <<ui, attempted, listing, mgr, calls, bus, queue, remote, clock, issued, isOnline, syncInProgress, syncStatus,
                   retryTimers, upd, edits, faults, faultable, passes, inFlight, pulls,
                   before, raced>>

\* processBatch: markSyncItemCompleted resolves (the item is removed)
SvcComplete ==
    /\ pass.pc = "svcComplete"
    /\ queue' = DeleteItem(queue, CurrentItem(pass).id)
    /\ pass' = SvcAfterItem(pass)
    /\ UNCHANGED <<ui, attempted, listing, mgr, calls, bus, rooms, remote, clock, issued, isOnline, syncInProgress, syncStatus,
                   retryTimers, upd, edits, faults, faultable, passes, inFlight, pulls,
                   before, raced>>

\* processBatch: markSyncItemFailed resolves
SvcFail ==
    /\ pass.pc = "svcFail"
    /\ queue' = markSyncItemFailed(queue, CurrentItem(pass).id)
    /\ pass' = SvcAfterItem(pass)
    /\ UNCHANGED <<ui, attempted, listing, mgr, calls, bus, rooms, remote, clock, issued, isOnline, syncInProgress, syncStatus,
                   retryTimers, upd, edits, faults, faultable, passes, inFlight, pulls,
                   before, raced>>

\* triggerSync: setLastSyncTime resolves, the result is returned and the
\* finally block clears isSyncing
SvcLastSync ==
    /\ pass.pc = "svcLastSync"
    /\ pass' = IdlePass
    /\ UNCHANGED <<ui, attempted, listing, mgr, calls, bus, rooms, queue, remote, clock, issued, isOnline, syncInProgress,
                   syncStatus, retryTimers, upd, edits, faults, faultable, passes,
                   inFlight, pulls, before, raced>>

TriggerNext ==
    \/ HandleOnline
    \/ HandleOffline
    \/ SvcPeriodicSync
    \/ ForceSyncNow
    \/ SvcFetchOk
    \/ SvcFetchFailed
    \/ SvcPull
    \/ SvcGetPending
    \/ SvcReadLocal
    \/ SvcPutAccepted
    \/ SvcPutFailed
    \/ SvcSave
    \/ SvcComplete
    \/ SvcFail
    \/ SvcLastSync

TriggerSpec == TriggerInit /\ [][TriggerNext]_vars

(***************************************************************************)
(* C23                                                                     *)
(***************************************************************************)
\* the item is written back with one more retry, pending when attempts remain
\* below the limit and failed otherwise
MarkedFailed(id, limit) ==
    /\ id \in KeptItems
    /\ queue'[id].retryCount = queue[id].retryCount + 1
    /\ queue'[id].syncStatus =
         IF queue[id].retryCount + 1 < limit THEN "pending" ELSE "failed"

\* C23: marking an item failed adds one to its retry count and sets it back
\* to pending when retries remain, and to failed only when they are used up,
\* on both paths: syncItem's catch block and markSyncItemFailed.
C23_PendingWhileRetriesRemain ==
    [][ /\ (PassRecordFailure /\ queue' # queue)
            => MarkedFailed(CurrentItem(pass).id, RetryDelaysLength)
        /\ SvcFail => MarkedFailed(CurrentItem(pass).id, pass.maxRetries) ]_vars

(***************************************************************************)
(* C24                                                                     *)
(***************************************************************************)
\* the step takes the published status from syncing to idle
BackToIdle == syncStatus = "syncing" /\ syncStatus' = "idle"

\* the frame of the pass the step belongs to
StepFrame == IF pass'.pc = "idle" THEN pass ELSE pass'

\* C24: a pass takes the status from syncing to idle only when both the push
\* of the pending items and the pull (fetch of the remote collection and
\* merge of its records) are done in that pass, and the pull is started after
\* the push.
C24_IdleAfterPushThenPull ==
    /\ [][ BackToIdle =>
             (StepFrame.pc # "idle" /\ StepFrame.pushed /\ StepFrame.pulled) ]_vars
    /\ [][ SvcFetchOk => pass.pushed ]_vars

(***************************************************************************)
(* BackgroundSyncService with storage faults in the pass: the store has    *)
(* been loaded and edited twice offline, and a storage request of          *)
(* syncPendingItems or syncItem may be rejected                            *)
(***************************************************************************)
FaultInit == EditedTwice({0}, {"pass"})

FaultNext ==
    \/ Triggers(TRUE)
    \/ PassStep

FaultSpec == FaultInit /\ [][FaultNext]_vars

(***************************************************************************)
(* C25                                                                     *)
(***************************************************************************)
\* a storage request of the first pass has been rejected
FaultInFirstPass == faults > 0 /\ passes = 1

\* C25: when a storage request fails during a pass, the pass attempts no
\* further item, the published status becomes error when the pass ends, and
\* the rejected request leaves the queue as it was.
C25_StorageFaultAbortsPass ==
    /\ [][ (FaultInFirstPass /\ pass.pc # "idle" /\ pass'.pc # "idle")
             => pass'.idx = pass.idx ]_vars
    /\ []((FaultInFirstPass /\ pass.pc = "idle") => syncStatus = "error")
    /\ [][ faults' # faults => queue' = queue ]_vars

PassStorageStep ==
    \/ PassGetPending
    \/ PassMarkSyncing
    \/ PassReadLocal
    \/ PassSaveMerged
    \/ PassRemove
    \/ PassReadRoom
    \/ PassSaveClean
    \/ PassRecordFailure

HangSpec ==
    /\ RetryInit
    /\ [][RetryNext]_vars
    /\ WF_vars(UpdateRoomSave \/ UpdateRoomEnqueue \/ UpdateRoomReturn)
    /\ WF_vars(PassStorageStep)
    /\ WF_vars(OnlineEvent(FALSE))
    /\ SF_vars(PeriodicSync(FALSE))

(***************************************************************************)
(* C27                                                                     *)
(***************************************************************************)
\* C27: every pass that has started ends some time later (syncInProgress is
\* false again, so that a later trigger can start a pass), also when a remote
\* call never answers.
C27_EveryPassEnds == syncInProgress ~> ~syncInProgress

NeverInCooldown(now, last) == FALSE

\* debouncedInvalidation: now - lastInvalidationTime < INVALIDATION_COOLDOWN
InCooldown(now, last) == now - last < InvalidationCooldown

\* debouncedInvalidation without clearTimeout
clearNothing(timers, id) == timers

\* clearTimeout(invalidationTimeout)
clearTimeout(timers, id) == {t \in timers : t.id # id}

\* a timer is due
TimerDue == \E t \in ui.timers : t.due <= ui.now

\* the smaller of two times
Earlier(a, b) == IF a <= b THEN a ELSE b

\* the clock of the consumer advances, up to the next timer
UiTick ==
    /\ ~TimerDue
    /\ ui.now < MaxNow
    /\ LET next == ui.now + Tick
           dues == {t.due : t \in ui.timers}
       IN ui' = [ui EXCEPT !.now = IF dues = {} THEN next
                                   ELSE Earlier(next, CHOOSE d \in dues : \A e \in dues : d <= e)]
    /\ UNCHANGED <<attempted, listing, mgr, calls, bus, rooms, queue, remote, clock, issued, isOnline, syncInProgress, syncStatus,
                   retryTimers, upd, pass, edits, faults, faultable, passes, inFlight,
                   pulls, before, raced>>

\* debouncedInvalidation(source), called by a handler of room-updated,
\* data-updated, sync-status-changed (idle) or sync-completed
DebouncedInvalidation ==
    /\ ~TimerDue
    /\ ui.events < MaxEvents
    /\ LET now == ui.now
           newBurst == ui.events = 0 \/ now - ui.lastEvent >= DebounceDelay
           skip == InCooldown(now, ui.lastInvalidationTime)
           heard == [ui EXCEPT
                       !.events = @ + 1,
                       !.lastEvent = now,
                       !.skipped = IF skip THEN @ + 1 ELSE @,
                       !.burstOutside = IF newBurst THEN ~skip ELSE @,
                       !.burstEvents = IF newBurst THEN 1 ELSE @ + 1,
                       !.burstRefreshes = IF newBurst THEN 0 ELSE @]
       IN ui' = IF skip THEN heard
                ELSE [heard EXCEPT
                        !.timers = clearTimeout(ui.timers, ui.invalidationTimeout)
                                     \cup {[id |-> ui.events + 1, due |-> now + DebounceDelay]},
                        !.invalidationTimeout = ui.events + 1]
    /\ UNCHANGED <<attempted, listing, mgr, calls, bus, rooms, queue, remote, clock, issued, isOnline, syncInProgress, syncStatus,
                   retryTimers, upd, pass, edits, faults, faultable, passes, inFlight,
                   pulls, before, raced>>

\* the setTimeout callback: invalidateQueries, lastInvalidationTime = Date.now()
InvalidationTimeout ==
    /\ \E t \in ui.timers :
         /\ t.due <= ui.now
         /\ ui' = [ui EXCEPT !.timers = @ \ {t},
                             !.lastInvalidationTime = ui.now,
                             !.refreshes = @ + 1,
                             !.burstRefreshes = @ + 1]
    /\ UNCHANGED <<attempted, listing, mgr, calls, bus, rooms, queue, remote, clock, issued, isOnline, syncInProgress, syncStatus,
                   retryTimers, upd, pass, edits, faults, faultable, passes, inFlight,
                   pulls, before, raced>>

DebounceNext ==
    \/ UiTick
    \/ DebouncedInvalidation
    \/ InvalidationTimeout

DebounceSpec == Init /\ [][DebounceNext]_vars

(***************************************************************************)
(* C29                                                                     *)
(***************************************************************************)
\* the burst in progress is over: the debounce delay has passed since its
\* last event and the timer that was due has run
BurstOver ==
    /\ ui.events > 0
    /\ ui.now >= ui.lastEvent + DebounceDelay
    /\ ~TimerDue

\* C29: a burst of events that starts outside the cooldown, each event less
\* than 500 ms after the one before, gives exactly one refresh, and every
\* refresh fires 500 ms after the latest event.
C29_BurstGivesOneRefresh ==
    /\ [][ InvalidationTimeout => ui.now = ui.lastEvent + DebounceDelay ]_vars
    /\ [](ui.burstOutside => ui.burstRefreshes <= 1)
    /\ []((ui.burstOutside /\ BurstOver) => ui.burstRefreshes = 1)

\* a burst of three events that started outside the cooldown is over
C29_Witness ==
    /\ ui.burstOutside
    /\ BurstOver
    /\ ui.burstEvents >= 3
    /\ ui.burstRefreshes = 1

(***************************************************************************)
(* C30                                                                     *)
(***************************************************************************)
\* a refresh has fired less than one cooldown ago
AfterRefresh ==
    /\ ui.lastInvalidationTime # 0
    /\ ui.now - ui.lastInvalidationTime < InvalidationCooldown

\* C30: an event that arrives less than 1 s after a refresh fired sets no
\* timer; two consecutive refreshes fire at least 1 s apart; at most one
\* refresh timer is pending at any time.
C30_CooldownHolds ==
    /\ [][ (AfterRefresh /\ DebouncedInvalidation) => ui'.timers = ui.timers ]_vars
    /\ [][ (InvalidationTimeout /\ ui.lastInvalidationTime # 0)
             => ui.now - ui.lastInvalidationTime >= InvalidationCooldown ]_vars
    /\ [](Cardinality(ui.timers) <= 1)

\* a second refresh has fired after an event was skipped in the cooldown of
\* the first
C30_Witness ==
    /\ ui.refreshes = 2
    /\ ui.skipped > 0

(***************************************************************************)
(* C31                                                                     *)
(***************************************************************************)
\* the bookkeeping keys the claim names
BookkeepingKeys == {"version", "isDirty", "lastSyncedAt"}

\* syncItem's switch on changeType: the body of the request an item produces;
\* syncRoomUpdate sends apiData, syncBulkUpdate sends JSON.stringify(item.data)
requestBody(item) ==
    IF item.changeType = "update" THEN apiData(item.data) ELSE item.data

MaxListed == 3

\* the services and the consumer as constructed, over the given store
QuiescentOver(store) ==
    /\ rooms = store
    /\ queue = <<>>
    /\ remote = SeedRemote
    /\ clock = 1
    /\ issued = {}
    /\ isOnline = TRUE
    /\ syncInProgress = FALSE
    /\ syncStatus = "idle"
    /\ retryTimers = FALSE
    /\ upd = IdleUpd
    /\ pass = IdlePass
    /\ edits = 0
    /\ faults = 0
    /\ faultable = {}
    /\ passes = 0
    /\ inFlight = 0
    /\ pulls = 0
    /\ before = [r \in RoomIds |-> NoRoom]
    /\ raced = {}
    /\ ui = IdleUi
    /\ attempted = <<>>

\* every variable of the replica, the services and the consumer as constructed
Quiescent == QuiescentOver([r \in RoomIds |-> NoRoom])

\* records the store can yield: clean records of either room
ListedRecords ==
    { [id |-> r, status |-> s, notes |-> "none", updatedAt |-> t,
       lastSyncedAt |-> 1, isDirty |-> FALSE, version |-> 0] :
        r \in RoomIds, s \in {"dirty", "clean"}, t \in 1..MaxTime }

ListsUpTo(n) == UNION { [1..k -> ListedRecords] : k \in 0..n }

ListingInit ==
    /\ Quiescent
    /\ listing \in { [localRooms |-> l, pc |-> "idle"] : l \in ListsUpTo(MaxListed) }
    /\ mgr = IdleMgr
    /\ calls = IdleCalls
    /\ bus = IdleBus

\* getAllRooms: getAllRoomAssignments resolves with localRooms and the call
\* returns the deduplicated map's values
GetAllRooms ==
    /\ listing.pc = "idle"
    /\ listing' = [localRooms |-> listing.localRooms, pc |-> "done",
                   deduplicatedRooms |-> getAllRooms(listing.localRooms)]
    /\ UNCHANGED <<rooms, queue, remote, clock, issued, isOnline, syncInProgress, syncStatus,
                   retryTimers, upd, pass, edits, faults, faultable, passes, inFlight, pulls,
                   before, raced, ui, attempted, mgr, calls, bus>>

ListingSpec == ListingInit /\ [][GetAllRooms]_vars

(***************************************************************************)
(* C32                                                                     *)
(***************************************************************************)
\* the positions of the listed records with the given id
PositionsOf(id) ==
    { i \in 1..Len(listing.localRooms) : listing.localRooms[i].id = id }

\* C32: getAllRooms returns one record for every id the store yielded and for
\* no other id, and the record returned for an id is one of the listed records
\* of that id, converted, whose updatedAt is the greatest among them.
C32_OnePerIdTheNewest ==
    listing.pc = "done" =>
        /\ DOMAIN listing.deduplicatedRooms =
             { listing.localRooms[i].id : i \in 1..Len(listing.localRooms) }
        /\ \A id \in DOMAIN listing.deduplicatedRooms :
             /\ \E i \in PositionsOf(id) :
                  listing.deduplicatedRooms[id] = convertFromLocal(listing.localRooms[i])
             /\ \A i \in PositionsOf(id) :
                  listing.deduplicatedRooms[id].updatedAt >= listing.localRooms[i].updatedAt

\* the call returned for a list in which a record follows an older record of
\* the same id
C32_Witness ==
    /\ listing.pc = "done"
    /\ \E i, j \in 1..Len(listing.localRooms) :
         /\ i < j
         /\ listing.localRooms[i].id = listing.localRooms[j].id
         /\ listing.localRooms[j].updatedAt > listing.localRooms[i].updatedAt

(***************************************************************************)
(* OfflineManager.init called from several components                      *)
(***************************************************************************)
\* init calls made, and items a sync pass reports as synced
MaxInits == 3
MaxSynced == 3

InitInit ==
    /\ Quiescent
    /\ listing = IdleListing
    /\ mgr = IdleMgr
    /\ calls = IdleCalls
    /\ bus = IdleBus

\* init up to its await: returns at once when initialized, otherwise waits
\* for indexedDBManager.init()
InitCall ==
    /\ mgr.inits < MaxInits
    /\ mgr' = IF mgr.initialized
              THEN [mgr EXCEPT !.inits = @ + 1]
              ELSE [mgr EXCEPT !.inits = @ + 1, !.awaiting = @ + 1]
    /\ UNCHANGED <<rooms, queue, remote, clock, issued, isOnline, syncInProgress, syncStatus,
                   retryTimers, upd, pass, edits, faults, faultable, passes, inFlight, pulls,
                   before, raced, ui, attempted, listing, calls, bus>>

\* init after its await: the four backgroundSyncService.on calls, then
\* initialized = true
InitResume ==
    /\ mgr.awaiting > 0
    /\ mgr' = [mgr EXCEPT !.awaiting = @ - 1, !.handlers = @ + 1, !.initialized = TRUE]
    /\ UNCHANGED <<rooms, queue, remote, clock, issued, isOnline, syncInProgress, syncStatus,
                   retryTimers, upd, pass, edits, faults, faultable, passes, inFlight, pulls,
                   before, raced, ui, attempted, listing, calls, bus>>

\* init when indexedDBManager.init() rejects: the call rethrows
InitRejected ==
    /\ mgr.awaiting > 0
    /\ mgr' = [mgr EXCEPT !.awaiting = @ - 1]
    /\ UNCHANGED <<rooms, queue, remote, clock, issued, isOnline, syncInProgress, syncStatus,
                   retryTimers, upd, pass, edits, faults, faultable, passes, inFlight, pulls,
                   before, raced, ui, attempted, listing, calls, bus>>

\* BackgroundSyncService reports one synced item: 'item-synced' and the item's
\* successful result in 'sync-completed' reach every registered handler, and
\* each handler emits room-updated, respectively data-updated
ItemSynced ==
    /\ mgr.synced < MaxSynced
    /\ mgr' = [mgr EXCEPT !.synced = @ + 1,
                          !.roomUpdated = @ + mgr.handlers,
                          !.dataUpdated = @ + mgr.handlers]
    /\ UNCHANGED <<rooms, queue, remote, clock, issued, isOnline, syncInProgress, syncStatus,
                   retryTimers, upd, pass, edits, faults, faultable, passes, inFlight, pulls,
                   before, raced, ui, attempted, listing, calls, bus>>

InitNext == InitCall \/ InitResume \/ InitRejected \/ ItemSynced

InitSpec == InitInit /\ [][InitNext]_vars

(***************************************************************************)
(* C33                                                                     *)
(***************************************************************************)
\* C33: once OfflineManager is initialized and no init call is awaiting the
\* store, one handler is registered for each BackgroundSyncService event, and
\* an item synced while initialized produces one data-updated and one
\* room-updated event.
C33_OneHandlerPerEvent ==
    /\ [](mgr.initialized /\ mgr.awaiting = 0 => mgr.handlers = 1)
    /\ [][ItemSynced /\ mgr.initialized =>
             /\ mgr'.roomUpdated = mgr.roomUpdated + 1
             /\ mgr'.dataUpdated = mgr.dataUpdated + 1]_vars

(***************************************************************************)
(* Two OfflineManager.updateRoom calls in progress at once                 *)
(***************************************************************************)
Callers == {1, 2}

\* both calls are about to be made on a loaded store; nth records the order
\* of the saves
ConcurrentInit ==
    /\ QuiescentOver(LoadedStore)
    /\ listing = IdleListing
    /\ mgr = IdleMgr
    /\ bus = IdleBus
    /\ calls = [c \in Callers |-> [pc |-> "idle", nth |-> 0]]

\* the number of saves made so far
SavesMade == Cardinality({c \in Callers : calls[c].nth > 0})

\* updateRoom up to its second await: getRoomAssignment resolves with the
\* stored record (the store is loaded) and saveRoomAssignment(updatedRoom) is
\* requested
CallRead(c, roomId, updateData) ==
    /\ calls[c].pc = "idle"
    /\ \E now \in Now :
         /\ calls' = [calls EXCEPT ![c] =
                        [pc |-> "save", nth |-> 0, roomId |-> roomId, data |-> updateData,
                         updated |-> updatedRoom(rooms[roomId], updateData, now)]]
         /\ clock' = now
    /\ UNCHANGED <<rooms, queue, remote, issued, isOnline, syncInProgress, syncStatus,
                   retryTimers, upd, pass, edits, faults, faultable, passes, inFlight, pulls,
                   before, raced, ui, attempted, listing, mgr, bus>>

\* saveRoomAssignment resolves and addToSyncQueue is requested
CallSave(c) ==
    /\ calls[c].pc = "save"
    /\ rooms' = [rooms EXCEPT ![calls[c].roomId] = calls[c].updated]
    /\ calls' = [calls EXCEPT ![c].pc = "enqueue", ![c].nth = SavesMade + 1]
    /\ UNCHANGED <<queue, remote, clock, issued, isOnline, syncInProgress, syncStatus,
                   retryTimers, upd, pass, edits, faults, faultable, passes, inFlight, pulls,
                   before, raced, ui, attempted, listing, mgr, bus>>

\* addToSyncQueue resolves and updateRoom returns
CallEnqueue(c) ==
    /\ calls[c].pc = "enqueue"
    /\ \E uuid \in ItemIds \ issued :
         /\ queue' = PutItem(queue, syncItemFor(uuid, calls[c].roomId, calls[c].data,
                                                calls[c].updated.version,
                                                calls[c].updated.updatedAt))
         /\ issued' = issued \cup {uuid}
    /\ calls' = [calls EXCEPT ![c].pc = "done"]
    /\ UNCHANGED <<rooms, remote, clock, isOnline, syncInProgress, syncStatus,
                   retryTimers, upd, pass, edits, faults, faultable, passes, inFlight, pulls,
                   before, raced, ui, attempted, listing, mgr, bus>>

ConcurrentNext ==
    \E c \in Callers :
       \/ \E roomId \in RoomIds, updateData \in Deltas : CallRead(c, roomId, updateData)
       \/ CallSave(c)
       \/ CallEnqueue(c)

ConcurrentSpec == ConcurrentInit /\ [][ConcurrentNext]_vars

(***************************************************************************)
(* C34                                                                     *)
(***************************************************************************)
\* both calls have returned and they were made on the same id
BothDoneOnOneRoom ==
    /\ \A c \in Callers : calls[c].pc = "done"
    /\ calls[1].roomId = calls[2].roomId

\* the call whose save came second
LaterWriter == CHOOSE c \in Callers : calls[c].nth = 2

\* C34: after two updateRoom calls on the same id have both returned, however
\* their storage steps interleaved, the stored record has every field of both
\* deltas (the later writer's value on a field of both), its version is two
\* greater than before the calls, and the queue holds two pending items with
\* distinct version values.
C34_NoLostUpdate ==
    BothDoneOnOneRoom =>
        LET rid == calls[1].roomId
            later == calls[LaterWriter].data
        IN /\ \A c \in Callers : \A k \in DOMAIN calls[c].data :
                rooms[rid][k] = (IF k \in DOMAIN later THEN later[k] ELSE calls[c].data[k])
           /\ rooms[rid].version = LoadedStore[rid].version + 2
           /\ Cardinality(DOMAIN queue) = 2
           /\ \A i \in DOMAIN queue : queue[i].syncStatus = "pending"
           /\ \A i, j \in DOMAIN queue : i # j => queue[i].data.version # queue[j].data.version

(***************************************************************************)
(* C35                                                                     *)
(***************************************************************************)
\* C35: in every state where no sync pass is in flight, no persisted queue
\* item has status 'syncing', also after a pass in which a storage write was
\* rejected.
C35_NoSyncingOutsideAPass ==
    ~syncInProgress => \A id \in DOMAIN queue : queue[id].syncStatus # "syncing"

(***************************************************************************)
(* C36                                                                     *)
(***************************************************************************)
\* C36: the published sync status is 'syncing' in every state where a
\* BackgroundSyncService pass is in flight, and 'idle' or 'error' in every
\* state where none is in flight.
C36_StatusTracksThePass ==
    /\ syncInProgress => syncStatus = "syncing"
    /\ ~syncInProgress => syncStatus \in {"idle", "error"}

(***************************************************************************)
(* The debounced refresh with time running on until every timer has fired  *)
(***************************************************************************)
\* time passes beyond the modelled horizon up to the next pending timer
UiSettle ==
    /\ ~TimerDue
    /\ ui.now >= MaxNow
    /\ ui.timers # {}
    /\ LET dues == {t.due : t \in ui.timers}
       IN ui' = [ui EXCEPT !.now = CHOOSE d \in dues : \A e \in dues : d <= e]
    /\ UNCHANGED <<attempted, listing, mgr, calls, bus, rooms, queue, remote, clock, issued, isOnline, syncInProgress, syncStatus,
                   retryTimers, upd, pass, edits, faults, faultable, passes, inFlight,
                   pulls, before, raced>>

SettleNext == DebounceNext \/ UiSettle

\* time passes and a due timer's callback runs; events need not arrive
SettleSpec ==
    /\ Init
    /\ [][SettleNext]_vars
    /\ WF_vars(UiTick)
    /\ WF_vars(UiSettle)
    /\ WF_vars(InvalidationTimeout)

(***************************************************************************)
(* C37                                                                     *)
(***************************************************************************)
\* the latest event delivered to the consumer has no refresh at or after it
Unrefreshed ==
    /\ ui.events > 0
    /\ ui.lastInvalidationTime < ui.lastEvent

\* C37: every event delivered to the debounced refresh is eventually followed
\* by a refresh that fires at or after the event, once events stop arriving.
C37_EveryEventRefreshed == Unrefreshed ~> ~Unrefreshed

(***************************************************************************)
(* C38                                                                     *)
(***************************************************************************)
\* C38: the persisted retryCount of a queue item never exceeds the length of
\* the backoff schedule, and syncItem is never called more than that many
\* times for one item, whichever triggers start the passes.
C38_AtMostFiveAttempts ==
    /\ \A id \in DOMAIN queue : queue[id].retryCount <= RetryDelaysLength
    /\ \A id \in DOMAIN attempted : attempted[id] <= RetryDelaysLength

\* an item has been attempted five times and is stored as failed with
\* retryCount 5
C38_Witness ==
    \E id \in DOMAIN queue :
        /\ queue[id].retryCount = RetryDelaysLength
        /\ queue[id].syncStatus = "failed"
        /\ Attempts(id) = RetryDelaysLength

(***************************************************************************)
(* The event bus of OfflineManager and of BackgroundSyncService: on, off   *)
(* and emit for the listeners of one event                                 *)
(***************************************************************************)
\* the callbacks that can be registered
MaxListeners == 3
Callbacks == 1..MaxListeners

\* what a callback does when called: return, throw, or call off(event, ...)
Kinds == {"returns", "throws", "off"}

\* listeners.splice(listeners.indexOf(callback), 1), when the index is > -1
splice(listeners, callback) ==
    IF \E i \in 1..Len(listeners) : listeners[i] = callback
    THEN LET index == CHOOSE i \in 1..Len(listeners) :
                        /\ listeners[i] = callback
                        /\ \A j \in 1..(i - 1) : listeners[j] # callback
         IN [i \in 1..(Len(listeners) - 1) |->
               IF i < index THEN listeners[i] ELSE listeners[i + 1]]
    ELSE listeners

\* the callbacks in the listener array
Registered(listeners) == {listeners[i] : i \in 1..Len(listeners)}

BusInit ==
    /\ Quiescent
    /\ listing = IdleListing
    /\ mgr = IdleMgr
    /\ calls = IdleCalls
    /\ bus = IdleBus

\* on(event, callback): push
On(callback, kind) ==
    /\ bus.pc = "idle"
    /\ callback \notin Registered(bus.listeners)
    /\ bus' = [bus EXCEPT !.listeners = Append(@, callback),
                          !.kinds = Spread(@, (callback :> kind))]
    /\ UNCHANGED <<rooms, queue, remote, clock, issued, isOnline, syncInProgress, syncStatus,
                   retryTimers, upd, pass, edits, faults, faultable, passes, inFlight, pulls,
                   before, raced, ui, attempted, listing, mgr, calls>>

\* off(event, callback), called while no emit is in progress
Off(callback) ==
    /\ bus.pc = "idle"
    /\ callback \in Registered(bus.listeners)
    /\ bus' = [bus EXCEPT !.listeners = splice(@, callback)]
    /\ UNCHANGED <<rooms, queue, remote, clock, issued, isOnline, syncInProgress, syncStatus,
                   retryTimers, upd, pass, edits, faults, faultable, passes, inFlight, pulls,
                   before, raced, ui, attempted, listing, mgr, calls>>

\* emit(event): listeners.forEach starts; forEach reads the length once
Emit ==
    /\ bus.pc = "idle"
    /\ bus.listeners # <<>>
    /\ bus' = [bus EXCEPT !.pc = "emitting", !.k = 1, !.len = Len(bus.listeners),
                          !.invoked = [c \in Registered(bus.listeners) |-> 0],
                          !.atStart = Registered(bus.listeners)]
    /\ UNCHANGED <<rooms, queue, remote, clock, issued, isOnline, syncInProgress, syncStatus,
                   retryTimers, upd, pass, edits, faults, faultable, passes, inFlight, pulls,
                   before, raced, ui, attempted, listing, mgr, calls>>

\* one iteration of forEach: an index still present in the array has its
\* callback called inside try/catch; a callback of kind "off" removes itself
\* or another callback from the same array; an index no longer present is
\* passed over
Deliver ==
    /\ bus.pc = "emitting"
    /\ LET present == bus.k <= Len(bus.listeners)
           callback == bus.listeners[bus.k]
           stepped == [bus EXCEPT !.k = @ + 1,
                                  !.pc = IF bus.k = bus.len THEN "done" ELSE "emitting"]
       IN IF ~present
          THEN bus' = stepped
          ELSE LET called == [stepped EXCEPT !.invoked[callback] = @ + 1]
               IN IF bus.kinds[callback] = "off"
                  THEN \E target \in Registered(bus.listeners) :
                          bus' = [called EXCEPT !.listeners = splice(@, target)]
                  ELSE bus' = called
    /\ UNCHANGED <<rooms, queue, remote, clock, issued, isOnline, syncInProgress, syncStatus,
                   retryTimers, upd, pass, edits, faults, faultable, passes, inFlight, pulls,
                   before, raced, ui, attempted, listing, mgr, calls>>

BusNext ==
    \/ \E callback \in Callbacks, kind \in Kinds : On(callback, kind)
    \/ \E callback \in Callbacks : Off(callback)
    \/ Emit
    \/ Deliver

BusSpec == BusInit /\ [][BusNext]_vars

(***************************************************************************)
(* C39                                                                     *)
(***************************************************************************)
\* C39: when an emit has ended, every callback that was registered when it
\* started and is still registered has been called exactly once, whether or
\* not other callbacks threw or called off() during the delivery, and no
\* callback has been called twice.
C39_EveryListenerOnce ==
    bus.pc = "done" =>
        /\ \A c \in bus.atStart \cap Registered(bus.listeners) : bus.invoked[c] = 1
        /\ \A c \in bus.atStart : bus.invoked[c] <= 1

====
